---- MODULE Spec2Model ----
(***************************************************************************)
(* A model of the adaptive document-structure extraction engine:           *)
(*   BookStructureAnalyzer, AdaptiveIndexExtractor, AdaptiveTableExtractor *)
(*   (app/phase1_pdf_processing/utils/pdf_extraction_strategies.py) and    *)
(*   PDFProcessor (app/phase1_pdf_processing/processor.py).                *)
(* Text is a sequence of one-character strings, so that the regular        *)
(* expressions of the source are matched character by character.           *)
(***************************************************************************)
EXTENDS Integers, Sequences, FiniteSets, TLC

VARIABLES
    \* the ExtractionConfig in use (its numeric fields)
    config,
    \* BookStructureAnalyzer.analyze_book_type: arguments and return value
    text_samples, total_pages, book_type,
    \* the callers of the analyzer: what the call before this one returned
    \* ("none" for the first call) and an earlier call that is remembered,
    \* with its arguments and return value (<<>> when none is)
    previous_type, watched_call,
    \* AdaptiveTableExtractor.extract: what page.extract_tables() gives (or that
    \* it raises), the page number, the loop position, the tables accepted so
    \* far, the place in the method and the returned list
    raw_tables, tables_raise, page_num, tidx, valid_tables, tpc, tables_result,
    \* the number of calls of extract made on the page so far and what the
    \* first of them returned
    runs, first_result,
    \* the document behind a PDFProcessor: per page what extract_text() gives
    \* and what extract_tables() gives
    doc, doc_tables,
    \* PDFProcessor: self.pdf ("None" or the pdfplumber object), the state of
    \* that object's file handle, and the other fields (an optional value is a
    \* sequence of none or one)
    self_pdf, handle, self_total_pages, self_config, self_book_type,
    self_index_extractor, self_table_extractor,
    \* the caller: inside the with block or not, the last call made on the
    \* processor and how it ended
    in_with, last_call, ret,
    \* what the last call returned when it was extract_tables (a list of
    \* tables) or identify_first_page (a page number; 0 when not called),
    \* the page_range extract_tables was called with (<<>> for None), and
    \* what the last call returned when it was extract_index (<<>> for None)
    ret_tables, ret_page, arg_page_range, ret_index,
    \* what _auto_configure did when __enter__ last ran it: the indices at
    \* which it read a page and the samples it passed to the analyzer
    sampled,
    \* AdaptiveIndexExtractor.extract: the arguments (max_pages is <<>> for
    \* None), the pages located and the strategy that located them, the
    \* lines of _extract_entries_adaptive and the number of lines done, its
    \* locals (current_entry is <<>> for None; cur_alias: the positions of
    \* entries holding the very dict current_entry refers to), the place in
    \* the method, the filtered list and the return value (<<>> for None)
    pages, max_pages, index_pages, strategy, lines, li,
    entries, current_entry, cur_alias, seen_titles, start_collecting,
    ipc, filtered_entries, index_result,
    \* PDFExtractorService and the file system: the document behind each
    \* path (or that there is none), the files and directories created
    \* under output_dir, the paths handed to pdfplumber.open, the last call
    \* made (a constructor call or extract_from_pdf) and how it ended
    fs_documents, fs_output, opened_paths, svc_call, svc_ret

clsVars == <<text_samples, total_pages, book_type, previous_type, watched_call>>
tblVars == <<raw_tables, tables_raise, page_num, tidx, valid_tables, tpc, tables_result,
            runs, first_result>>
procVars == <<doc, doc_tables, ret_tables, ret_page, arg_page_range, ret_index, sampled, self_pdf, handle, self_total_pages, self_config, self_book_type,
              self_index_extractor, self_table_extractor, in_with, last_call, ret>>
idxVars == <<pages, max_pages, index_pages, strategy, lines, li,
             entries, current_entry, cur_alias, seen_titles, start_collecting,
             ipc, filtered_entries, index_result>>
svcVars == <<fs_documents, fs_output, opened_paths, svc_call, svc_ret>>
vars == <<config, clsVars, tblVars, procVars, idxVars, svcVars>>
\* what an operation of one component leaves alone
otherThanClassify == <<config, tblVars, procVars, idxVars, svcVars>>
otherThanTable == <<config, clsVars, procVars, idxVars, svcVars>>
otherThanProc == <<config, clsVars, tblVars, idxVars, svcVars>>
otherThanIndex == <<config, clsVars, tblVars, procVars, svcVars>>
otherThanService == <<config, clsVars, tblVars, idxVars>>

(***************************************************************************)
(* Characters and strings (Python str, re).                                *)
(***************************************************************************)
UpperSeq ==
    <<"A","B","C","D","E","F","G","H","I","J","K","L","M",
      "N","O","P","Q","R","S","T","U","V","W","X","Y","Z">>
LowerSeq ==
    <<"a","b","c","d","e","f","g","h","i","j","k","l","m",
      "n","o","p","q","r","s","t","u","v","w","x","y","z">>
DigitSeq == <<"0","1","2","3","4","5","6","7","8","9">>
UpperSet == {UpperSeq[i] : i \in 1..26}
LowerSet == {LowerSeq[i] : i \in 1..26}
DigitSet == {DigitSeq[i] : i \in 1..10}
\* \s of the re module, on the characters the model uses
SpaceSet == {" ", "\t", "\n"}
\* \w of the re module
IsWordChar(c) == c \in UpperSet \cup LowerSet \cup DigitSet \cup {"_"}

LowerOf == [c \in UpperSet |-> LowerSeq[CHOOSE i \in 1..26 : UpperSeq[i] = c]]
ToLowerChar(c) == IF c \in UpperSet THEN LowerOf[c] ELSE c
\* str.lower()
lower(s) == [i \in 1..Len(s) |-> ToLowerChar(s[i])]

\* sep.join(parts)
RECURSIVE join(_, _)
join(sep, parts) ==
    IF parts = <<>> THEN <<>>
    ELSE IF Len(parts) = 1 THEN parts[1]
    ELSE parts[1] \o sep \o join(sep, Tail(parts))

\* first index >= i that holds no whitespace (Len(s)+1 when there is none)
RECURSIVE SkipSpaces(_, _)
SkipSpaces(s, i) ==
    IF i <= Len(s) /\ s[i] \in SpaceSet THEN SkipSpaces(s, i + 1) ELSE i

\* first index >= i that holds no digit: the end of a greedy \d+
RECURSIVE SkipDigits(_, _)
SkipDigits(s, i) ==
    IF i <= Len(s) /\ s[i] \in DigitSet THEN SkipDigits(s, i + 1) ELSE i

\* a literal of a pattern, matched at i under re.IGNORECASE
MatchLit(s, i, w) ==
    /\ i + Len(w) - 1 <= Len(s)
    /\ \A k \in 1..Len(w) : ToLowerChar(s[i + k - 1]) = w[k]

\* \b at the position before index j, after a word character
BoundaryAfter(s, j) == j > Len(s) \/ ~IsWordChar(s[j])

Min2(a, b) == IF a < b THEN a ELSE b
Max2(a, b) == IF a > b THEN a ELSE b

\* the element of a one-element set; The({F(x) : x \in {e}}) is F(e) with e
\* evaluated once
The(S) == CHOOSE v \in S : TRUE

\* the sequences over S of length at most n: the inputs of a run
RECURSIVE SeqsUpTo(_, _)
SeqsUpTo(S, n) ==
    IF n = 0 THEN {<<>>}
    ELSE LET shorter == SeqsUpTo(S, n - 1)
         IN  shorter \cup {Append(q, x) : q \in {r \in shorter : Len(r) = n - 1}, x \in S}

(***************************************************************************)
(* Patterns of the form \b e1 \s+ e2 \s+ ... en [\b], where an element is  *)
(* a literal word, \d+ or a one-character class; and "[^"]{min,}".         *)
(***************************************************************************)
ElemEnd(s, i, e) ==
    IF e.k = "word" THEN (IF MatchLit(s, i, e.w) THEN i + Len(e.w) ELSE 0)
    ELSE IF e.k = "digits" THEN (IF SkipDigits(s, i) > i THEN SkipDigits(s, i) ELSE 0)
    ELSE (IF i <= Len(s) /\ ToLowerChar(s[i]) \in e.w THEN i + 1 ELSE 0)

RECURSIVE MatchElems(_, _, _, _, _)
MatchElems(s, i, elems, n, endb) ==
    LET j == ElemEnd(s, i, elems[n]) IN
    /\ j # 0
    /\ IF n = Len(elems)
       THEN endb => BoundaryAfter(s, j)
       ELSE /\ j <= Len(s)
            /\ s[j] \in SpaceSet
            /\ MatchElems(s, SkipSpaces(s, j), elems, n + 1, endb)

SearchWords(s, pat) ==
    \E i \in 1..Len(s) :
        /\ i = 1 \/ ~IsWordChar(s[i - 1])
        /\ MatchElems(s, i, pat.elems, 1, pat.endb)

SearchQuoted(s, min) ==
    \E i \in {x \in 1..Len(s) : s[x] = "\""} :
    \E j \in {y \in (i + 1)..Len(s) : s[y] = "\""} :
        /\ j - i - 1 >= min
        /\ \A k \in (i + 1)..(j - 1) : s[k] # "\""

\* re.search(pattern, s, re.IGNORECASE)
Search(s, pat) ==
    IF pat.kind = "quoted" THEN SearchQuoted(s, pat.min) ELSE SearchWords(s, pat)

(***************************************************************************)
(* ExtractionConfig: the numeric fields; min_table_cell_fill is held as a  *)
(* fraction num/den.  The pattern lists are the defaults of __post_init__. *)
(***************************************************************************)
DefaultConfig ==
    [ max_index_pages |-> 15, min_index_entries |-> 3,
      min_content_length |-> 200, skip_initial_pages |-> 0,
      min_table_rows |-> 2, min_table_cols |-> 2,
      min_table_cell_fill |-> [num |-> 3, den |-> 10],
      max_cell_length |-> 500 ]

\* Python None, where a string (a tuple of characters) may stand
None == <<"None">>

\* str.strip()
RECURSIVE rstrip(_)
rstrip(s) ==
    IF s # <<>> /\ s[Len(s)] \in SpaceSet THEN rstrip(SubSeq(s, 1, Len(s) - 1)) ELSE s
strip(s) == LET j == SkipSpaces(s, 1) IN rstrip(SubSeq(s, j, Len(s)))


\* page.extract_text() raises, where a string may stand
Raises == <<"Raises">>

(***************************************************************************)
(* BookStructureAnalyzer                                                   *)
(***************************************************************************)
academic_indicators ==
    << [kind |-> "words", elems |-> <<[k |-> "word", w |-> <<"r","e","f","e","r","e","n","c","e","s">>]>>, endb |-> TRUE, min |-> 0],
       [kind |-> "words", elems |-> <<[k |-> "word", w |-> <<"b","i","b","l","i","o","g","r","a","p","h","y">>]>>, endb |-> TRUE, min |-> 0],
       [kind |-> "words", elems |-> <<[k |-> "word", w |-> <<"c","i","t","a","t","i","o","n">>]>>, endb |-> TRUE, min |-> 0],
       [kind |-> "words", elems |-> <<[k |-> "word", w |-> <<"a","b","s","t","r","a","c","t">>]>>, endb |-> TRUE, min |-> 0],
       [kind |-> "words", elems |-> <<[k |-> "word", w |-> <<"i","n","t","r","o","d","u","c","t","i","o","n">>]>>, endb |-> TRUE, min |-> 0],
       [kind |-> "words", elems |-> <<[k |-> "word", w |-> <<"c","o","n","c","l","u","s","i","o","n">>]>>, endb |-> TRUE, min |-> 0],
       [kind |-> "words", elems |-> <<[k |-> "word", w |-> <<"f","i","g","u","r","e">>], [k |-> "digits", w |-> <<>>]>>, endb |-> FALSE, min |-> 0],
       [kind |-> "words", elems |-> <<[k |-> "word", w |-> <<"t","a","b","l","e">>], [k |-> "digits", w |-> <<>>]>>, endb |-> FALSE, min |-> 0],
       [kind |-> "words", elems |-> <<[k |-> "word", w |-> <<"e","q","u","a","t","i","o","n">>]>>, endb |-> TRUE, min |-> 0] >>

novel_indicators ==
    << [kind |-> "words", elems |-> <<[k |-> "word", w |-> <<"c","h","a","p","t","e","r">>], [k |-> "digits", w |-> <<>>]>>, endb |-> FALSE, min |-> 0],
       [kind |-> "words", elems |-> <<[k |-> "word", w |-> <<"p","a","r","t">>], [k |-> "digits", w |-> <<>>]>>, endb |-> FALSE, min |-> 0],
       [kind |-> "words", elems |-> <<[k |-> "word", w |-> <<"e","p","i","l","o","g","u","e">>]>>, endb |-> TRUE, min |-> 0],
       [kind |-> "quoted", elems |-> <<>>, endb |-> FALSE, min |-> 20],
       [kind |-> "words", elems |-> <<[k |-> "word", w |-> <<"h","e">>], [k |-> "word", w |-> <<"s","a","i","d">>]>>, endb |-> TRUE, min |-> 0],
       [kind |-> "words", elems |-> <<[k |-> "word", w |-> <<"s","h","e">>], [k |-> "word", w |-> <<"s","a","i","d">>]>>, endb |-> TRUE, min |-> 0] >>

manual_indicators ==
    << [kind |-> "words", elems |-> <<[k |-> "word", w |-> <<"s","t","e","p">>], [k |-> "digits", w |-> <<>>]>>, endb |-> FALSE, min |-> 0],
       [kind |-> "words", elems |-> <<[k |-> "word", w |-> <<"p","r","o","c","e","d","u","r","e">>]>>, endb |-> TRUE, min |-> 0],
       [kind |-> "words", elems |-> <<[k |-> "word", w |-> <<"i","n","s","t","r","u","c","t","i","o","n">>]>>, endb |-> TRUE, min |-> 0],
       [kind |-> "words", elems |-> <<[k |-> "word", w |-> <<"h","o","w">>], [k |-> "word", w |-> <<"t","o">>]>>, endb |-> TRUE, min |-> 0],
       [kind |-> "words", elems |-> <<[k |-> "word", w |-> <<"t","u","t","o","r","i","a","l">>]>>, endb |-> TRUE, min |-> 0],
       [kind |-> "words", elems |-> <<[k |-> "word", w |-> <<"g","u","i","d","e">>]>>, endb |-> TRUE, min |-> 0] >>

SamplePool ==
    { <<"R","e","f","e","r","e","n","c","e","s"," ","a","n","d"," ","B","i","b","l","i","o","g","r","a","p","h","y">>,
      <<"a","b","s","t","r","a","c","t",","," ","c","h","a","p","t","e","r"," ","3",","," ","e","p","i","l","o","g","u","e">>,
      <<"f","i","g","u","r","e">>,
      <<"7">>,
      <<"c","h","a","p","t","e","r"," ","3">>,
      <<"E","p","i","l","o","g","u","e",":"," ","s","h","e"," ","s","a","i","d">>,
      <<"s","t","e","p"," ","1"," ","o","f"," ","t","h","e"," ","p","r","o","c","e","d","u","r","e">>,
      <<"h","o","w"," ","t","o"," ","g","u","i","d","e">>,
      <<"\"","a"," ","q","u","o","t","e","d"," ","l","i","n","e"," ","o","f"," ","d","i","a","l","o","g","u","e","\"">> }

Scenario1Samples ==
    << <<"r","e","f","e","r","e","n","c","e","s"," ","r","e","f","e","r","e","n","c","e","s"," ","r","e","f","e","r","e","n","c","e","s">>,
       <<"b","i","b","l","i","o","g","r","a","p","h","y"," ","a","b","s","t","r","a","c","t"," ","a","b","s","t","r","a","c","t"," ","a","b","s","t","r","a","c","t">> >>

Scenario2Samples ==
    << <<"c","h","a","p","t","e","r"," ","3">>,
       <<"e","p","i","l","o","g","u","e"," ","\"","t","h","i","s"," ","i","s"," ","t","h","e"," ","f","i","r","s","t"," ","d","i","a","l","o","g","u","e","\""," ","\"","t","h","i","s"," ","i","s"," ","t","h","e"," ","s","e","c","o","n","d"," ","d","i","a","l","o","g","u","e","\"">> >>

\* sum(1 for pattern in indicators if re.search(pattern, combined_text))
Score(indicators, text) ==
    Cardinality({n \in 1..Len(indicators) : Search(text, indicators[n])})

combined_text(samples) == lower(join(<<" ">>, samples))

analyze_book_type_NoPageCheck(samples, npages) ==
    LET text == combined_text(samples)
        academic_score == Score(academic_indicators, text)
        novel_score == Score(novel_indicators, text)
        manual_score == Score(manual_indicators, text)
    IN  IF novel_score >= 2 THEN "novel"
        ELSE IF academic_score >= 3 THEN "academic"
        ELSE IF manual_score >= 2 THEN "manual"
        ELSE IF academic_score >= 2 THEN "textbook"
        ELSE "unknown"

analyze_book_type(samples, npages) ==
    LET text == combined_text(samples)
        academic_score == Score(academic_indicators, text)
        novel_score == Score(novel_indicators, text)
        manual_score == Score(manual_indicators, text)
    IN  IF academic_score >= 3 THEN "academic"
        ELSE IF novel_score >= 2 /\ npages > 100 THEN "novel"
        ELSE IF manual_score >= 2 THEN "manual"
        ELSE IF academic_score >= 2 THEN "textbook"
        ELSE "unknown"

(***************************************************************************)
(* AdaptiveTableExtractor                                                  *)
(***************************************************************************)
\* cell and str(cell).strip()
CellFilled(cell) == cell # None /\ cell # <<>> /\ strip(cell) # <<>>

\* [row for row in table if row and any(str(cell).strip() for cell in row if cell)]
non_empty_rows(table) ==
    SelectSeq(table, LAMBDA row : row # <<>> /\ \E i \in 1..Len(row) : CellFilled(row[i]))

RECURSIVE SumSeq(_)
SumSeq(q) == IF q = <<>> THEN 0 ELSE q[1] + SumSeq(Tail(q))

MaxOf(S) == CHOOSE m \in S : \A x \in S : x <= m

\* the row-count rule with <= in place of <
_validate_table_RowsAtMost(table, cfg) ==
    LET rows == non_empty_rows(table)
    IN  IF table = <<>> THEN FALSE
        ELSE IF Len(rows) <= cfg.min_table_rows THEN FALSE
        ELSE TRUE

_validate_table(table, cfg) ==
    LET rows == non_empty_rows(table)
        max_cols == MaxOf({Len(rows[r]) : r \in 1..Len(rows)})
        total_cells == SumSeq([r \in 1..Len(rows) |-> Len(rows[r])])
        filled_cells ==
            SumSeq([r \in 1..Len(rows) |->
                Cardinality({c \in 1..Len(rows[r]) : CellFilled(rows[r][c])})])
        long_cells ==
            SumSeq([r \in 1..Len(rows) |->
                Cardinality({c \in 1..Len(rows[r]) :
                    /\ rows[r][c] # None /\ rows[r][c] # <<>>
                    /\ Len(strip(rows[r][c])) > cfg.max_cell_length})])
    IN  IF table = <<>> THEN FALSE
        ELSE IF Len(rows) < cfg.min_table_rows THEN FALSE
        ELSE IF max_cols < cfg.min_table_cols THEN FALSE
        ELSE IF total_cells = 0 THEN FALSE
        \* fill_ratio < min_table_cell_fill
        ELSE IF filled_cells * cfg.min_table_cell_fill.den
                    < cfg.min_table_cell_fill.num * total_cells THEN FALSE
        \* long_cells > len(non_empty_rows) * 0.5
        ELSE IF 2 * long_cells > Len(rows) THEN FALSE
        ELSE TRUE

\* [str(cell).strip() if cell else "" for cell in row]
cleaned(row) ==
    [c \in 1..Len(row) |-> IF row[c] # None /\ row[c] # <<>> THEN strip(row[c]) ELSE <<>>]

\* padding without truncation
normalize_row_NoTruncate(row, header_len) ==
    IF Len(row) < header_len
    THEN row \o [c \in 1..(header_len - Len(row)) |-> <<>>]
    ELSE row

\* a data row padded with "" or truncated to the header's length
normalize_row(row, header_len) ==
    IF Len(row) < header_len
    THEN row \o [c \in 1..(header_len - Len(row)) |-> <<>>]
    ELSE IF Len(row) > header_len THEN SubSeq(row, 1, header_len)
    ELSE row

\* the StructuredTable as a sequence of one record, or <<>> for None
_structure_table(table, pnum, table_idx) ==
    LET rows == non_empty_rows(table)
        clean == [r \in 1..Len(rows) |-> cleaned(rows[r])]
        header_row == clean[1]
        data_rows == Tail(clean)
        header_len == Len(header_row)
        normalized_data ==
            [r \in 1..Len(data_rows) |-> normalize_row(data_rows[r], header_len)]
    IN  IF rows = <<>> THEN <<>>
        ELSE IF data_rows = <<>> THEN <<>>
        ELSE << [ page_number |-> pnum, table_index |-> table_idx,
                  header |-> header_row, data |-> normalized_data,
                  row_count |-> Len(normalized_data), column_count |-> header_len ] >>

(***************************************************************************)
(* AdaptiveTableExtractor.extract(page, page_num): one step per raw grid   *)
(* of the page, in the order of page.extract_tables().                     *)
(***************************************************************************)
\* the body of the for loop for the grid at enumerate index idx (0-based)
extract_grid(table, pnum, idx, cfg) ==
    IF table = <<>> THEN <<>>
    ELSE IF _validate_table(table, cfg) THEN _structure_table(table, pnum, idx + 1)
    ELSE <<>>

\* the number of times extract is called on the same page
MaxRuns == 2

\* extract(page, page_num): page.extract_tables() raises
ExtractRaises ==
    /\ tpc = "call"
    /\ tables_raise
    /\ tpc' = "returned"
    /\ tables_result' = <<>>
    /\ UNCHANGED <<raw_tables, tables_raise, page_num, tidx, valid_tables, runs, first_result>>
    /\ UNCHANGED otherThanTable

\* one pass of "for idx, table in enumerate(tables)" in which the cleaned
\* rows are written back into the grid
ExtractGrid_InPlace ==
    /\ tpc = "call"
    /\ ~tables_raise
    /\ tidx < Len(raw_tables)
    /\ valid_tables' = valid_tables \o extract_grid(raw_tables[tidx + 1], page_num, tidx, config)
    /\ raw_tables' = [raw_tables EXCEPT ![tidx + 1] = [k \in 1..Len(@) |-> cleaned(@[k])]]
    /\ tidx' = tidx + 1
    /\ UNCHANGED <<tables_raise, page_num, tpc, tables_result, runs, first_result>>
    /\ UNCHANGED otherThanTable

\* one pass of "for idx, table in enumerate(tables)" (lines 471-479)
ExtractGrid ==
    /\ tpc = "call"
    /\ ~tables_raise
    /\ tidx < Len(raw_tables)
    /\ valid_tables' = valid_tables \o extract_grid(raw_tables[tidx + 1], page_num, tidx, config)
    /\ tidx' = tidx + 1
    /\ UNCHANGED <<raw_tables, tables_raise, page_num, tpc, tables_result, runs, first_result>>
    /\ UNCHANGED otherThanTable

\* "return valid_tables" (line 481)
ExtractReturn ==
    /\ tpc = "call"
    /\ ~tables_raise
    /\ tidx = Len(raw_tables)
    /\ tpc' = "returned"
    /\ tables_result' = valid_tables
    /\ UNCHANGED <<raw_tables, tables_raise, page_num, tidx, valid_tables, runs, first_result>>
    /\ UNCHANGED otherThanTable

\* the caller calls extract again on the same page: the locals of the new
\* call start afresh (the extractor keeps nothing but its config)
ExtractAgain ==
    /\ tpc = "returned"
    /\ runs < MaxRuns
    /\ runs' = runs + 1
    /\ first_result' = IF runs = 1 THEN tables_result ELSE first_result
    /\ tpc' = "call" /\ tidx' = 0 /\ valid_tables' = <<>> /\ tables_result' = <<>>
    /\ UNCHANGED <<raw_tables, tables_raise, page_num>>
    /\ UNCHANGED otherThanTable
(***************************************************************************)
(* AdaptiveIndexExtractor: the patterns of ExtractionConfig.__post_init__  *)
(* and the regular expressions of the methods.                             *)
(***************************************************************************)
\* index_keywords; \bchapters?\b is listed as \bchapter\b and \bchapters\b
index_keywords ==
    << [kind |-> "words", elems |-> <<[k |-> "word", w |-> <<"t","a","b","l","e">>], [k |-> "word", w |-> <<"o","f">>], [k |-> "word", w |-> <<"c","o","n","t","e","n","t","s">>]>>, endb |-> TRUE, min |-> 0],
       [kind |-> "words", elems |-> <<[k |-> "word", w |-> <<"c","o","n","t","e","n","t","s">>]>>, endb |-> TRUE, min |-> 0],
       [kind |-> "words", elems |-> <<[k |-> "word", w |-> <<"i","n","d","e","x">>]>>, endb |-> TRUE, min |-> 0],
       [kind |-> "words", elems |-> <<[k |-> "word", w |-> <<"t","o","c">>]>>, endb |-> TRUE, min |-> 0],
       [kind |-> "words", elems |-> <<[k |-> "word", w |-> <<"o","v","e","r","v","i","e","w">>]>>, endb |-> TRUE, min |-> 0],
       [kind |-> "words", elems |-> <<[k |-> "word", w |-> <<"c","h","a","p","t","e","r">>]>>, endb |-> TRUE, min |-> 0],
       [kind |-> "words", elems |-> <<[k |-> "word", w |-> <<"c","h","a","p","t","e","r","s">>]>>, endb |-> TRUE, min |-> 0] >>

\* any(re.search(pattern, s, re.IGNORECASE) for pattern in index_keywords)
has_index_keyword(s) == \E n \in 1..Len(index_keywords) : Search(s, index_keywords[n])

\* text.split('\n')
RECURSIVE split_lines(_)
split_lines(text) ==
    IF \A i \in 1..Len(text) : text[i] # "\n" THEN <<text>>
    ELSE LET i == CHOOSE k \in 1..Len(text) :
                      text[k] = "\n" /\ \A h \in 1..(k - 1) : text[h] # "\n"
         IN  <<SubSeq(text, 1, i - 1)>> \o split_lines(SubSeq(text, i + 1, Len(text)))

\* str.split(): the words between runs of whitespace
RECURSIVE split_words(_)
split_words(s) ==
    LET i == SkipSpaces(s, 1)
        j == CHOOSE k \in i..(Len(s) + 1) :
                 /\ k > Len(s) \/ s[k] \in SpaceSet
                 /\ \A h \in i..(k - 1) : s[h] \notin SpaceSet
    IN  IF i > Len(s) THEN <<>>
        ELSE <<SubSeq(s, i, j - 1)>> \o split_words(SubSeq(s, j, Len(s)))

\* s.startswith(w)
startswith(s, w) == Len(w) <= Len(s) /\ SubSeq(s, 1, Len(w)) = w

\* w in s
contains(s, w) == \E i \in 1..(Len(s) - Len(w) + 1) : SubSeq(s, i, i + Len(w) - 1) = w

\* [IVX], also lower case under re.IGNORECASE
IsRoman(c, ignorecase) ==
    c \in {"I", "V", "X"} \/ (ignorecase /\ c \in {"i", "v", "x"})
IsLetter(c) == c \in UpperSet \cup LowerSet

\* re.search(r'[IVX]+[\.\)]|\d+[\.\)]', s)
has_enumerator(s, ignorecase) ==
    \E i \in 2..Len(s) :
        /\ s[i] \in {".", ")"}
        /\ IsRoman(s[i - 1], ignorecase) \/ s[i - 1] \in DigitSet

\* end of the run of characters satisfying a class, from i
RECURSIVE SkipRoman(_, _)
SkipRoman(s, i) ==
    IF i <= Len(s) /\ IsRoman(s[i], TRUE) THEN SkipRoman(s, i + 1) ELSE i

\* re.search(r'^[IVX]+[\.\)]|\d+[\.\)]', s): the first alternative is anchored
has_enumerator_at_start(s) ==
    \/ \E n \in 1..(Len(s) - 1) :
          /\ \A h \in 1..n : IsRoman(s[h], FALSE)
          /\ s[n + 1] \in {".", ")"}
    \/ \E i \in 2..Len(s) : s[i] \in {".", ")"} /\ s[i - 1] \in DigitSet

\* the words of ^(this|the|we|it|in|on|at|as|to|for|of|a|an)\s+[a-z]
content_starters ==
    << <<"t","h","i","s">>,
       <<"t","h","e">>,
       <<"w","e">>,
       <<"i","t">>,
       <<"i","n">>,
       <<"o","n">>,
       <<"a","t">>,
       <<"a","s">>,
       <<"t","o">>,
       <<"f","o","r">>,
       <<"o","f">>,
       <<"a">>,
       <<"a","n">> >>

\* re.search of that pattern requiring `letters` letters after the blanks;
\* with ignorecase the words and the letters match in either case
starts_like_content(s, ignorecase, letters) ==
    \E n \in 1..Len(content_starters) :
        LET w == content_starters[n]
            t == IF ignorecase THEN lower(s) ELSE s
            j == SkipSpaces(s, Len(w) + 1)
        IN  /\ startswith(t, w)
            /\ Len(s) > Len(w) /\ s[Len(w) + 1] \in SpaceSet
            /\ j + letters - 1 <= Len(s)
            /\ \A h \in j..(j + letters - 1) : t[h] \in LowerSet

\* (?:[\s]*\.{2,}[\s]*(\d+))?[\s]*$ on the rest of a line: the digits of the
\* page number, None when the rest is blank, or the rest does not match
NoMatch == <<"NoMatch">>
RECURSIVE SkipDots(_, _)
SkipDots(s, i) == IF i <= Len(s) /\ s[i] = "." THEN SkipDots(s, i + 1) ELSE i
leader_page(rest) ==
    LET a == SkipSpaces(rest, 1)
        b == SkipDots(rest, a)
        c == SkipSpaces(rest, b)
        d == SkipDigits(rest, c)
        e == SkipSpaces(rest, d)
    IN  IF b - a >= 2 /\ d > c /\ e > Len(rest) THEN SubSeq(rest, c, d - 1)
        ELSE IF a > Len(rest) THEN None
        ELSE NoMatch

\* the enumerator alternatives ([IVX]+[\.\)]? | \d+[\.\)]?) that must be
\* followed by whitespace: the index after the enumerator, 0 for no match
enum_end(s, i) ==
    IF i > 1 /\ i <= Len(s) /\ s[i] \in {".", ")"} /\ i + 1 <= Len(s) /\ s[i + 1] \in SpaceSet
    THEN i + 1
    ELSE IF i > 1 /\ i <= Len(s) /\ s[i] \in SpaceSet THEN i
    ELSE 0

\* chapter\s+\d+ | part\s+\d+ followed by whitespace
word_number_end(s, w) ==
    IF MatchLit(s, 1, w) /\ Len(s) > Len(w) /\ s[Len(w) + 1] \in SpaceSet
    THEN LET a == SkipSpaces(s, Len(w) + 1)
             b == SkipDigits(s, a)
         IN  IF b > a /\ b <= Len(s) /\ s[b] \in SpaceSet THEN b ELSE 0
    ELSE 0

\* group 1 of the first pattern: the index after it, 0 for no match
enumerator_end(s, with_words) ==
    IF enum_end(s, SkipRoman(s, 1)) # 0 THEN enum_end(s, SkipRoman(s, 1))
    ELSE IF enum_end(s, SkipDigits(s, 1)) # 0 THEN enum_end(s, SkipDigits(s, 1))
    ELSE IF with_words /\ word_number_end(s, <<"c","h","a","p","t","e","r">>) # 0
    THEN word_number_end(s, <<"c","h","a","p","t","e","r">>)
    ELSE IF with_words THEN word_number_end(s, <<"p","a","r","t">>)
    ELSE 0

NoGroups == [ok |-> FALSE, groups |-> <<>>]

\* index_patterns[0] with a title that runs to the end of the line
match_pattern1_TitleToEnd(s) ==
    LET e == enumerator_end(s, TRUE)
        p == SkipSpaces(s, e)
    IN  IF e = 0 \/ p > Len(s) THEN NoGroups
        ELSE [ok |-> TRUE, groups |-> <<SubSeq(s, 1, e - 1), SubSeq(s, p, Len(s)), None>>]

\* index_patterns[0]:
\* ^[\s]*([IVX]+[\.\)]?|\d+[\.\)]?|chapter\s+\d+|part\s+\d+)[\s]+(.+?)(?:[\s]*\.{2,}[\s]*(\d+))?[\s]*$
match_pattern1(s) ==
    LET e == enumerator_end(s, TRUE)
        p == SkipSpaces(s, e)
        ends == {t \in p..Len(s) : leader_page(SubSeq(s, t + 1, Len(s))) # NoMatch}
        t == CHOOSE x \in ends : \A y \in ends : x <= y
    IN  IF e = 0 \/ p > Len(s) THEN NoGroups
        ELSE [ok |-> TRUE,
              groups |-> <<SubSeq(s, 1, e - 1), SubSeq(s, p, t),
                           leader_page(SubSeq(s, t + 1, Len(s)))>>]

\* index_patterns[1]: ^[\s]*([IVX]+[\.\)]?|\d+[\.\)]?)[\s]+(.+?)[\s]*$
match_pattern2(s) ==
    LET e == enumerator_end(s, FALSE)
        p == SkipSpaces(s, e)
    IN  IF e = 0 \/ p > Len(s) THEN NoGroups
        ELSE [ok |-> TRUE, groups |-> <<SubSeq(s, 1, e - 1), SubSeq(s, p, Len(s))>>]

\* index_patterns[2]: ^[\s]*([A-Z][^\.]{3,50})(?:[\s]*\.{2,}[\s]*(\d+))?[\s]*$
match_pattern3(s) ==
    LET run == {m \in 3..50 :
                   /\ m + 1 <= Len(s)
                   /\ \A h \in 2..(m + 1) : s[h] # "."
                   /\ leader_page(SubSeq(s, m + 2, Len(s))) # NoMatch}
        m == CHOOSE x \in run : \A y \in run : y <= x
    IN  IF s = <<>> \/ ~IsLetter(s[1]) \/ run = {} THEN NoGroups
        ELSE [ok |-> TRUE,
              groups |-> <<SubSeq(s, 1, m + 1), leader_page(SubSeq(s, m + 2, Len(s)))>>]

\* re.match(index_patterns[n], line, re.IGNORECASE): the groups
match_pattern(n, s) ==
    IF n = 1 THEN match_pattern1(s)
    ELSE IF n = 2 THEN match_pattern2(s)
    ELSE match_pattern3(s)

\* int(page_ref)
RECURSIVE to_int(_)
to_int(digits) ==
    IF digits = <<>> THEN 0
    ELSE 10 * to_int(SubSeq(digits, 1, Len(digits) - 1))
         + (CHOOSE v \in 0..9 : DigitSeq[v + 1] = digits[Len(digits)])

(***************************************************************************)
(* AdaptiveIndexExtractor._extract_entries_adaptive.  An entry is a record *)
(* [entry_number, title, page_reference]; page_reference is <<>> for None. *)
(* current_entry is <<>> for None.  Python appends the dict current_entry  *)
(* itself to entries, so a committed entry can stay the same object as     *)
(* current_entry: cur_alias holds the positions of entries that do.        *)
(***************************************************************************)
skip_words ==
    << <<"c","o","p","y","r","i","g","h","t">>,
       <<"p","e","n","g","u","i","n">>,
       <<"t","i","t","l","e"," ","p","a","g","e">>,
       <<"d","e","d","i","c","a","t","i","o","n">>,
       <<"e","p","i","g","r","a","p","h">> >>
known_entries ==
    << <<"e","p","i","l","o","g","u","e">>,
       <<"n","o","t","e","s">>,
       <<"s","u","g","g","e","s","t","i","o","n","s">>,
       <<"a","b","o","u","t">>,
       <<"a","p","p","e","n","d","i","x">>,
       <<"b","i","b","l","i","o","g","r","a","p","h","y">>,
       <<"r","e","f","e","r","e","n","c","e","s">>,
       <<"p","r","o","l","o","g","u","e">>,
       <<"p","r","e","f","a","c","e">> >>

\* title_key = entry["title"].lower().strip()
title_key(title) == strip(lower(title))

\* "Save current entry": entries.append(current_entry); seen_titles.add(key),
\* when the key is new and, where the code asks for it, longer than 2
save_entry(st, need_length) ==
    LET key == title_key(st.cur[1].title) IN
    IF st.cur # <<>> /\ key \notin st.seen /\ (need_length => Len(key) > 2)
    THEN [st EXCEPT !.entries = Append(@, st.cur[1]),
                    !.seen = @ \cup {key},
                    !.alias = @ \cup {Len(st.entries) + 1}]
    ELSE st

\* current_entry = None
drop_current(st) == [st EXCEPT !.cur = <<>>, !.alias = {}]

\* "Clean title": strip, and fold a title made of the same words twice
clean_title(title) ==
    LET t == strip(title)
        words == split_words(t)
        h == Len(words) \div 2
    IN  IF Len(words) > 1 /\ SubSeq(words, 1, h) = SubSeq(words, h + 1, Len(words))
        THEN join(<<" ">>, SubSeq(words, 1, h))
        ELSE t

\* the entry the groups of a match give (lines 349-371)
entry_of_groups(groups, line) ==
    [entry_number |-> IF groups[1] # None /\ groups[1] # <<>> THEN groups[1] ELSE None,
     title |-> clean_title(IF Len(groups) > 1 /\ groups[2] # None /\ groups[2] # <<>>
                           THEN groups[2] ELSE line),
     page_reference |-> IF Len(groups) > 2 /\ groups[3] # None /\ groups[3] # <<>>
                        THEN <<to_int(groups[3])>> ELSE <<>>]

\* what pattern n does to the locals when its match gave the entry e, the
\* previous entry having been saved (lines 362-376)
accept_entry(s1, e) ==
    IF 2 < Len(e.title) /\ Len(e.title) < 300
    THEN IF title_key(e.title) \notin s1.seen
         THEN [s1 EXCEPT !.cur = <<e>>, !.alias = {}, !.matched = TRUE]
         ELSE s1
    ELSE [drop_current(s1) EXCEPT !.matched = FALSE]

\* the body of "for pattern in self.config.index_patterns" for pattern n
try_pattern(st, n, line) ==
    The({ IF ~m.ok THEN st
          ELSE The({ accept_entry(s1, e) :
                       s1 \in {save_entry(st, TRUE)},
                       e \in {entry_of_groups(m.groups, line)} })
          : m \in {match_pattern(n, line)} })

\* the loop over the patterns, left at the first accepted entry
RECURSIVE try_patterns(_, _, _)
try_patterns(st, n, line) ==
    IF n > 3 \/ st.matched THEN st
    ELSE The({ try_patterns(s, n + 1, line) : s \in {try_pattern(st, n, line)} })

\* current_entry["title"] += " " + line, seen through every alias
extend_title(st, line) ==
    LET t == st.cur[1].title \o <<" ">> \o line IN
    [st EXCEPT !.cur = <<[st.cur[1] EXCEPT !.title = t]>>,
               !.entries = [i \in 1..Len(st.entries) |->
                               IF i \in st.alias THEN [st.entries[i] EXCEPT !.title = t]
                               ELSE st.entries[i]]]

\* str.isupper() of a line whose first character is an upper-case letter
isupper(s) == (\E i \in 1..Len(s) : s[i] \in UpperSet) /\ (\A i \in 1..Len(s) : s[i] \notin LowerSet)

\* the test of lines 395-404 for an unnumbered entry
is_unnumbered_entry(line) ==
    /\ 2 < Len(line) /\ Len(line) < 80
    /\ line[1] \in UpperSet
    /\ ~isupper(line)
    /\ ~has_enumerator_at_start(line)
    /\ \/ \E k \in 1..Len(known_entries) : startswith(lower(line), known_entries[k])
       \/ Len(split_words(line)) <= 4 /\ ~starts_like_content(line, FALSE, 1)

\* the handling of an unmatched line in which a line that is not appended to
\* the open entry closes it and is then tried as an unnumbered entry
unmatched_line_FreshAttempt(st, line) ==
    LET fresh(s) ==
            IF is_unnumbered_entry(line) /\ title_key(line) \notin s.seen
            THEN [s EXCEPT !.entries = Append(@, [entry_number |-> None, title |-> line,
                                                  page_reference |-> <<>>]),
                           !.seen = @ \cup {title_key(line)}]
            ELSE s
    IN  IF st.cur # <<>>
        THEN IF /\ Len(line) < 150 /\ Len(st.cur[1].title) + Len(line) < 300
                /\ title_key(line) # title_key(st.cur[1].title)
             THEN extend_title(st, line)
             ELSE fresh(drop_current(save_entry(st, FALSE)))
        ELSE fresh(st)

\* "Handle continuation lines or unnumbered entries" (lines 379-412)
unmatched_line(st, line) ==
    IF st.cur # <<>>
    THEN IF Len(line) < 150 /\ Len(st.cur[1].title) + Len(line) < 300
         THEN IF title_key(line) # title_key(st.cur[1].title)
              THEN extend_title(st, line) ELSE st
         ELSE drop_current(save_entry(st, FALSE))
    ELSE IF is_unnumbered_entry(line) /\ title_key(line) \notin st.seen
    THEN [st EXCEPT !.entries = Append(@, [entry_number |-> None, title |-> line,
                                           page_reference |-> <<>>]),
                    !.seen = @ \cup {title_key(line)}]
    ELSE st

\* _is_content_line without the test of 150 characters on a line that
\* starts with a function word, and without the PROLOGUE rule
is_content_line_NoLengthTest(line, ents, cfg) ==
    \/ Len(line) > 250
    \/ starts_like_content(line, TRUE, 1) /\ Len(ents) >= cfg.min_index_entries

\* _is_content_line(line, entries)
is_content_line(line, ents, cfg) ==
    IF Len(line) > 250 THEN TRUE
    ELSE IF starts_like_content(line, TRUE, 1) /\ Len(ents) < cfg.min_index_entries
    THEN FALSE
    ELSE IF starts_like_content(line, TRUE, 1) /\ Len(line) > 150 THEN TRUE
    ELSE lower(line) = <<"p","r","o","l","o","g","u","e">>
         /\ Len(ents) >= cfg.min_index_entries

\* the pass in which the line with the index keyword is itself handled as
\* a line of the index
scan_stripped_HeaderIsEntry(st, line, cfg) ==
    IF line = <<>> THEN drop_current(save_entry(st, TRUE))
    ELSE IF ~st.start /\ ~has_index_keyword(line) THEN st
    ELSE IF st.start /\ is_content_line(line, st.entries, cfg)
    THEN [st EXCEPT !.stopped = Len(st.entries) >= cfg.min_index_entries]
    ELSE IF st.cur = <<>> /\ \E k \in 1..Len(skip_words) : contains(lower(line), skip_words[k])
    THEN [st EXCEPT !.start = TRUE]
    ELSE The({ IF s1.matched THEN s1 ELSE unmatched_line(s1, line) :
               s1 \in {try_patterns([st EXCEPT !.matched = FALSE, !.start = TRUE], 1, line)} })

\* one pass of "for line in lines" for the stripped line (lines 307-412)
scan_stripped(st, line, cfg) ==
    IF line = <<>> THEN drop_current(save_entry(st, TRUE))
    ELSE IF ~st.start
    THEN [st EXCEPT !.start = has_index_keyword(line)]
    ELSE IF is_content_line(line, st.entries, cfg)
    THEN [st EXCEPT !.stopped = Len(st.entries) >= cfg.min_index_entries]
    ELSE IF st.cur = <<>> /\ \E k \in 1..Len(skip_words) : contains(lower(line), skip_words[k])
    THEN st
    ELSE The({ IF s1.matched THEN s1 ELSE unmatched_line(s1, line) :
               s1 \in {try_patterns([st EXCEPT !.matched = FALSE], 1, line)} })

\* one pass of "for line in lines" (lines 305-412)
scan_line(st, raw, cfg) ==
    The({ scan_stripped(s, line, cfg) : s \in {st}, line \in {strip(raw)} })

\* "Save last entry" (lines 415-418): appended, not added to seen_titles
save_last(st) == (save_entry(st, TRUE)).entries

\* "Filter and deduplicate" without the seen set
RECURSIVE filter_entries_NoSeen(_, _)
filter_entries_NoSeen(ents, seen) ==
    IF ents = <<>> THEN <<>>
    ELSE LET title == title_key(ents[1].title)
             keep == /\ title # <<>>
                     /\ 2 < Len(title) /\ Len(title) < 300
                     /\ ~starts_like_content(title, FALSE, 10)
         IN  (IF keep THEN <<ents[1]>> ELSE <<>>)
             \o filter_entries_NoSeen(Tail(ents), seen)

\* "Filter and deduplicate" (lines 421-429)
RECURSIVE filter_entries(_, _)
filter_entries(ents, seen) ==
    IF ents = <<>> THEN <<>>
    ELSE LET title == title_key(ents[1].title)
             keep == /\ title # <<>> /\ title \notin seen
                     /\ 2 < Len(title) /\ Len(title) < 300
                     /\ ~starts_like_content(title, FALSE, 10)
         IN  (IF keep THEN <<ents[1]>> ELSE <<>>)
             \o filter_entries(Tail(ents), IF keep THEN seen \cup {title} ELSE seen)

(***************************************************************************)
(* AdaptiveIndexExtractor: the three strategies that locate the index      *)
(* pages, and extract.  A page is [page_number, text].                     *)
(***************************************************************************)
\* [l.strip() for l in text.split('\n') if l.strip()]
RECURSIVE non_blank(_)
non_blank(ls) ==
    IF ls = <<>> THEN <<>>
    ELSE (IF strip(ls[1]) # <<>> THEN <<strip(ls[1])>> ELSE <<>>) \o non_blank(Tail(ls))
stripped_lines(text) == non_blank(split_lines(text))

\* the words of content_indicators in _looks_like_index_continuation
continuation_stoppers ==
    << <<"t","h","i","s">>, <<"t","h","e">>, <<"w","e">>, <<"i","t">>,
       <<"i","n">>, <<"o","n">>, <<"a","t">> >>

\* _looks_like_index_continuation(text)
looks_like_index_continuation(text) ==
    LET ls == stripped_lines(text)
        numbered == Cardinality({i \in 1..Len(ls) : has_enumerator(ls[i], FALSE)})
        short_lines == Cardinality({i \in 1..Len(ls) : 5 < Len(ls[i]) /\ Len(ls[i]) < 100})
        content_lines ==
            Cardinality({i \in 1..Len(ls) : \E k \in 1..Len(continuation_stoppers) :
                            startswith(lower(ls[i]), continuation_stoppers[k] \o <<" ">>)})
    IN  /\ Len(ls) >= 3
        /\ numbered >= 2 \/ 5 * short_lines > 3 * Len(ls)
        /\ content_lines < 2

\* pages.index(page)
index_of(pgs, page) == CHOOSE i \in 1..Len(pgs) :
                            pgs[i] = page /\ \A h \in 1..(i - 1) : pgs[h] # page

\* the pages of `following`, each passing the continuation test and not yet
\* in index_pages, as the loops of lines 223-228 and 244-247 absorb them
RECURSIVE absorb(_, _, _)
absorb(ips, following, stop_at_failure) ==
    IF following = <<>> THEN ips
    ELSE IF looks_like_index_continuation(following[1].text)
    THEN absorb(IF \E i \in 1..Len(ips) : ips[i] = following[1]
                THEN ips ELSE Append(ips, following[1]),
                Tail(following), stop_at_failure)
    ELSE IF stop_at_failure THEN ips
    ELSE absorb(ips, Tail(following), stop_at_failure)

\* pages[a:b] of Python with 0 <= a <= b, on 1-based sequences
Slice(pgs, a, b) == SubSeq(pgs, a + 1, Min2(b, Len(pgs)))

\* the first page of the anchors `hits`, and up to `more` following pages
locate(pgs, hits, more, stop_at_failure) ==
    LET first == CHOOSE i \in hits : \A h \in hits : i <= h
        page_idx == index_of(pgs, pgs[first]) - 1
    IN  IF hits = {} THEN <<>>
        ELSE absorb(<<pgs[first]>>, Slice(pgs, page_idx + 1, page_idx + 1 + more),
                    stop_at_failure)

\* the keyword strategy without the break at a page that fails the
\* continuation test
find_index_pages_by_keywords_NoBreak(pgs) ==
    locate(pgs, {i \in 1..Len(pgs) : has_index_keyword(lower(pgs[i].text))}, 2, FALSE)

\* _find_index_pages_by_keywords(pages)
find_index_pages_by_keywords(pgs) ==
    locate(pgs, {i \in 1..Len(pgs) : has_index_keyword(lower(pgs[i].text))}, 2, TRUE)

\* numbered_lines of _find_index_pages_by_patterns
numbered_lines(text) ==
    LET ls == split_lines(text)
    IN  Cardinality({i \in 1..Len(ls) : has_enumerator(ls[i], TRUE)})

\* _find_index_pages_by_patterns(pages)
find_index_pages_by_patterns(pgs) ==
    locate(pgs, {i \in 1..Len(pgs) : numbered_lines(pgs[i].text) >= 3}, 1, FALSE)

\* the heuristic of _find_index_pages_by_statistics (lines 256-272)
looks_statistically_like_index(text) ==
    LET ls == stripped_lines(text)
        total == SumSeq([i \in 1..Len(ls) |-> Len(ls[i])])
        short_lines == Cardinality({i \in 1..Len(ls) : 10 < Len(ls[i]) /\ Len(ls[i]) < 80})
        long_lines == Cardinality({i \in 1..Len(ls) : Len(ls[i]) > 150})
    IN  /\ Len(ls) >= 5
        /\ 2 * short_lines > Len(ls)
        /\ 5 * long_lines < Len(ls)
        /\ total < 60 * Len(ls)

\* _find_index_pages_by_statistics(pages)
find_index_pages_by_statistics(pgs) ==
    LET first10 == Slice(pgs, 0, 10)
    IN  locate(first10,
               {i \in 1..Len(first10) : looks_statistically_like_index(first10[i].text)},
               0, FALSE)

\* the pages extract hands to the strategies: pages[:pages_to_check]
pages_to_check(pgs, mp, cfg) ==
    Slice(pgs, 0, Min2(IF mp = <<>> \/ mp = <<0>>
                         THEN cfg.max_index_pages ELSE mp[1],
                         Len(pgs)))

\* the cascade with the later strategies run on every page of the document
find_index_pages_WholeDocument(pgs, mp, cfg) ==
    LET checked == pages_to_check(pgs, mp, cfg)
        k == find_index_pages_by_keywords(checked)
        p == find_index_pages_by_patterns(pgs)
        s == find_index_pages_by_statistics(pgs)
    IN  IF k # <<>> THEN [pages |-> k, strategy |-> "keywords"]
        ELSE IF p # <<>> THEN [pages |-> p, strategy |-> "patterns"]
        ELSE IF s # <<>> THEN [pages |-> s, strategy |-> "statistics"]
        ELSE [pages |-> <<>>, strategy |-> "none"]

\* the cascade of lines 183-192; strategy is the one that located the pages
find_index_pages(pgs, mp, cfg) ==
    LET checked == pages_to_check(pgs, mp, cfg)
        k == find_index_pages_by_keywords(checked)
        p == find_index_pages_by_patterns(checked)
        s == find_index_pages_by_statistics(checked)
    IN  IF k # <<>> THEN [pages |-> k, strategy |-> "keywords"]
        ELSE IF p # <<>> THEN [pages |-> p, strategy |-> "patterns"]
        ELSE IF s # <<>> THEN [pages |-> s, strategy |-> "statistics"]
        ELSE [pages |-> <<>>, strategy |-> "none"]

\* combined_text.split('\n') of _extract_entries_adaptive
entry_lines(ips) ==
    split_lines(join(<<"\n">>, [i \in 1..Len(ips) |-> ips[i].text]))

\* the return value of extract without the test of min_index_entries
index_result_of_NoMinimum(ips, ents, cfg) ==
    IF ips = <<>> THEN <<>>
    ELSE << [page_number |-> ips[1].page_number,
             pages |-> [i \in 1..Len(ips) |-> ips[i].page_number],
             has_index_keyword |-> TRUE,
             entries |-> ents,
             raw_text |-> join(<<"\n">>, [i \in 1..Len(ips) |-> ips[i].text])] >>

\* the return value of extract (lines 194-211): <<>> is None
index_result_of(ips, ents, cfg) ==
    IF ips = <<>> THEN <<>>
    ELSE IF Len(ents) < cfg.min_index_entries THEN <<>>
    ELSE << [page_number |-> ips[1].page_number,
             pages |-> [i \in 1..Len(ips) |-> ips[i].page_number],
             has_index_keyword |-> TRUE,
             entries |-> ents,
             raw_text |-> join(<<"\n">>, [i \in 1..Len(ips) |-> ips[i].text])] >>


\* the locals of _extract_entries_adaptive before its loop (lines 300-303)
loop_start ==
    [entries |-> <<>>, cur |-> <<>>, alias |-> {}, seen |-> {}, start |-> FALSE,
     matched |-> FALSE, stopped |-> FALSE]

\* "for line in lines" from line n on, up to a break (lines 305-412)
RECURSIVE scan_lines(_, _, _, _)
scan_lines(st, ls, n, cfg) ==
    IF n > Len(ls) \/ st.stopped THEN st
    ELSE The({ scan_lines(s1, ls, n + 1, cfg) : s1 \in {scan_line(st, ls[n], cfg)} })

\* _extract_entries_adaptive (lines 295-431)
extract_entries(ips, cfg) ==
    The({ filter_entries(save_last(st), {}) :
          st \in {scan_lines(loop_start, entry_lines(ips), 1, cfg)} })

\* AdaptiveIndexExtractor.extract (lines 169-211): <<>> is None
index_extract(pgs, mp, cfg) ==
    The({ IF ips = <<>> THEN <<>> ELSE index_result_of(ips, extract_entries(ips, cfg), cfg) :
          ips \in {find_index_pages(pgs, mp, cfg).pages} })
(***************************************************************************)
(* AdaptiveIndexExtractor.extract as steps: locating the pages, one pass   *)
(* of the loop over the lines for each line, and the end of the method.    *)
(***************************************************************************)
\* the locals of the loop as one record, and back
loop_state ==
    [entries |-> entries, cur |-> current_entry, alias |-> cur_alias,
     seen |-> seen_titles, start |-> start_collecting, matched |-> FALSE,
     stopped |-> FALSE]

\* the cascade followed by an entry parsing that needs no heading line when
\* the pages were not located by the keyword strategy
LocatePages_CollectAtOnce ==
    /\ ipc = "locate"
    /\ LET found == find_index_pages(pages, max_pages, config) IN
       /\ index_pages' = found.pages
       /\ strategy' = found.strategy
       /\ start_collecting' = (found.strategy \in {"patterns", "statistics"})
       /\ IF found.pages = <<>>
          THEN /\ ipc' = "done"
               /\ lines' = <<>>
          ELSE /\ ipc' = "scan"
               /\ lines' = entry_lines(found.pages)
    /\ li' = 0
    /\ UNCHANGED <<pages, max_pages, entries, current_entry, cur_alias, seen_titles,
                   filtered_entries, index_result>>
    /\ UNCHANGED otherThanIndex

\* extract, lines 180-199: the cascade of strategies, then either
\* "return None" or the first lines of _extract_entries_adaptive (297-303)
LocatePages ==
    /\ ipc = "locate"
    /\ LET found == find_index_pages(pages, max_pages, config) IN
       /\ index_pages' = found.pages
       /\ strategy' = found.strategy
       /\ IF found.pages = <<>>
          THEN /\ ipc' = "done"
               /\ lines' = <<>>
          ELSE /\ ipc' = "scan"
               /\ lines' = entry_lines(found.pages)
    /\ li' = 0
    /\ UNCHANGED <<pages, max_pages, entries, current_entry, cur_alias, seen_titles,
                   start_collecting, filtered_entries, index_result>>
    /\ UNCHANGED otherThanIndex

\* one pass of "for line in lines"; a break, or the last line, ends the loop
ScanLine ==
    /\ ipc = "scan"
    /\ li < Len(lines)
    /\ LET st == scan_line(loop_state, lines[li + 1], config) IN
       /\ entries' = st.entries
       /\ current_entry' = st.cur
       /\ cur_alias' = st.alias
       /\ seen_titles' = st.seen
       /\ start_collecting' = st.start
       /\ li' = li + 1
       /\ ipc' = IF st.stopped \/ li + 1 = Len(lines) THEN "finish" ELSE "scan"
    /\ UNCHANGED <<pages, max_pages, index_pages, strategy, lines,
                   filtered_entries, index_result>>
    /\ UNCHANGED otherThanIndex

\* "Save last entry" and "Filter and deduplicate" (lines 414-431), then the
\* end of extract (lines 201-211)
FinishExtract ==
    /\ ipc = "finish"
    /\ entries' = save_last(loop_state)
    /\ filtered_entries' = filter_entries(entries', {})
    /\ index_result' = index_result_of(index_pages, filtered_entries', config)
    /\ ipc' = "done"
    /\ UNCHANGED <<pages, max_pages, index_pages, strategy, lines, li,
                   current_entry, cur_alias, seen_titles, start_collecting>>
    /\ UNCHANGED otherThanIndex

(***************************************************************************)
(* PDFProcessor: what identify_first_page and extract_tables compute from  *)
(* the pages of the document.                                              *)
(***************************************************************************)
\* the content indicators identify_first_page uses while self.config is None
fallback_content_indicators ==
    << [kind |-> "words", elems |-> <<[k |-> "word", w |-> <<"i","n","t","r","o","d","u","c","t","i","o","n">>]>>, endb |-> TRUE, min |-> 0],
       [kind |-> "words", elems |-> <<[k |-> "word", w |-> <<"c","h","a","p","t","e","r">>], [k |-> "class", w |-> {"1", "i"}]>>, endb |-> FALSE, min |-> 0],
       [kind |-> "words", elems |-> <<[k |-> "word", w |-> <<"p","r","e","f","a","c","e">>]>>, endb |-> TRUE, min |-> 0],
       [kind |-> "words", elems |-> <<[k |-> "word", w |-> <<"f","o","r","e","w","o","r","d">>]>>, endb |-> TRUE, min |-> 0],
       [kind |-> "words", elems |-> <<[k |-> "word", w |-> <<"p","r","o","l","o","g","u","e">>]>>, endb |-> TRUE, min |-> 0],
       [kind |-> "words", elems |-> <<[k |-> "word", w |-> <<"p","a","r","t">>], [k |-> "class", w |-> {"1", "i"}]>>, endb |-> FALSE, min |-> 0] >>

\* ExtractionConfig.content_indicators
content_indicators ==
    fallback_content_indicators \o
    << [kind |-> "words", elems |-> <<[k |-> "word", w |-> <<"c","h","a","p","t","e","r">>], [k |-> "word", w |-> <<"o","n","e">>]>>, endb |-> TRUE, min |-> 0],
       [kind |-> "words", elems |-> <<[k |-> "word", w |-> <<"c","h","a","p","t","e","r">>], [k |-> "word", w |-> <<"f","i","r","s","t">>]>>, endb |-> TRUE, min |-> 0] >>

\* identify_first_page: the first loop's verdict on one page (lines 180-203):
\* the page is returned, or the loop goes on
is_first_content_page(text, pnum, indicators, min_text_length, skip_pages) ==
    /\ text # Raises /\ text # None /\ text # <<>>
    /\ LET text_lower == strip(lower(text)) IN
       /\ Len(text_lower) >= min_text_length
       /\ \/ \E n \in 1..Len(indicators) : Search(text_lower, indicators[n])
          \/ pnum > skip_pages + 2 /\ 2 * Len(text_lower) > 3 * min_text_length

\* identify_first_page: the fallback loop's verdict on one page (lines 209-213)
has_substantial_text(text, min_text_length) ==
    /\ text # Raises /\ text # None /\ text # <<>>
    /\ Len(strip(text)) > min_text_length

\* identify_first_page with a fallback loop that runs over every page of the
\* document, the skipped ones included
identify_first_page_FallbackAnywhere(texts, cfg) ==
    LET indicators == IF cfg # <<>> THEN content_indicators ELSE fallback_content_indicators
        min_text_length == IF cfg # <<>> THEN cfg[1].min_content_length ELSE 200
        skip_pages == IF cfg # <<>> THEN cfg[1].skip_initial_pages ELSE 0
        start_page == skip_pages + 1
        found == {p \in start_page..Len(texts) :
                     is_first_content_page(texts[p], p, indicators, min_text_length, skip_pages)}
        fallback == {p \in 1..Len(texts) :
                        has_substantial_text(texts[p], min_text_length)}
    IN  IF found # {} THEN CHOOSE p \in found : \A q \in found : p <= q
        ELSE IF fallback # {} THEN CHOOSE p \in fallback : \A q \in fallback : p <= q
        ELSE start_page

\* identify_first_page() on the page texts, cfg being self.config (<<>> for
\* None); self.pdf.pages[start_page-1:] is empty when start_page is past the end
identify_first_page(texts, cfg) ==
    LET indicators == IF cfg # <<>> THEN content_indicators ELSE fallback_content_indicators
        min_text_length == IF cfg # <<>> THEN cfg[1].min_content_length ELSE 200
        skip_pages == IF cfg # <<>> THEN cfg[1].skip_initial_pages ELSE 0
        start_page == skip_pages + 1
        found == {p \in start_page..Len(texts) :
                     is_first_content_page(texts[p], p, indicators, min_text_length, skip_pages)}
        fallback == {p \in start_page..Len(texts) :
                        has_substantial_text(texts[p], min_text_length)}
    IN  IF found # {} THEN CHOOSE p \in found : \A q \in found : p <= q
        ELSE IF fallback # {} THEN CHOOSE p \in fallback : \A q \in fallback : p <= q
        ELSE start_page

\* what page.extract_tables() does on a page: it raises, or gives raw grids
NoTables == [raises |-> FALSE, grids |-> <<>>]
TablesRaise == [raises |-> TRUE, grids |-> <<>>]

\* AdaptiveTableExtractor.extract(page, page_num): the loop over the grids
RECURSIVE extract_grids(_, _, _, _)
extract_grids(grids, pnum, idx, cfg) ==
    IF idx >= Len(grids) THEN <<>>
    ELSE extract_grid(grids[idx + 1], pnum, idx, cfg)
         \o extract_grids(grids, pnum, idx + 1, cfg)

\* AdaptiveTableExtractor.extract(page, page_num)
extract_page_tables(page, pnum, cfg) ==
    IF page.raises THEN <<>> ELSE extract_grids(page.grids, pnum, 0, cfg)

\* extract_tables: the body of the loop for page_num; self.pdf.pages[page_num - 1]
\* with a negative index counts from the end, and an IndexError is caught
tables_of_page(tabs, pnum, cfg) ==
    LET pos == IF pnum - 1 < 0 THEN Len(tabs) + pnum ELSE pnum
    IN  IF pos < 1 \/ pos > Len(tabs) THEN <<>>
        ELSE extract_page_tables(tabs[pos], pnum, cfg)

\* extract_tables: the loop over range(first, last + 1)
RECURSIVE tables_of_pages(_, _, _, _)
tables_of_pages(tabs, first, last, cfg) ==
    IF first > last THEN <<>>
    ELSE tables_of_page(tabs, first, cfg) \o tables_of_pages(tabs, first + 1, last, cfg)

\* extract_tables(page_range): page_range is <<>> for None, else <<start, end>>
extract_tables(tabs, tp, page_range, cfg) ==
    LET start_page == IF page_range # <<>> THEN page_range[1] ELSE 1
        end_page == IF page_range # <<>> THEN page_range[2] ELSE tp
    IN  tables_of_pages(tabs, start_page, Min2(end_page + 1, tp + 1) - 1, cfg)


\* extract_index, lines 243-256: the pages handed to the extractor are the
\* pages among the first max_pages whose text is neither None nor empty and
\* does not raise
RECURSIVE pages_data(_, _, _)
pages_data(texts, pnum, last) ==
    IF pnum > last THEN <<>>
    ELSE (IF texts[pnum] \in {Raises, None, <<>>} THEN <<>>
          ELSE <<[page_number |-> pnum, text |-> texts[pnum]]>>)
         \o pages_data(texts, pnum + 1, last)

\* PDFProcessor.extract_index(max_pages_to_check) for a processor whose
\* config is cfg and whose index extractor was built on xcfg
extract_index(texts, tp, max_pages_to_check, cfg, xcfg) ==
    LET mp == IF max_pages_to_check = <<>> \/ max_pages_to_check = <<0>>
              THEN cfg.max_index_pages ELSE max_pages_to_check[1]
    IN  index_extract(pages_data(texts, 1, Min2(mp + 1, tp + 1) - 1), <<mp>>, xcfg)
(***************************************************************************)
(* BookStructureAnalyzer.get_config_for_type                               *)
(***************************************************************************)
get_config_for_type(btype) ==
    IF btype = "academic"
    THEN [DefaultConfig EXCEPT !.max_index_pages = 20, !.min_index_entries = 5,
                               !.min_content_length = 300,
                               !.min_table_cell_fill = [num |-> 4, den |-> 10]]
    ELSE IF btype = "textbook"
    THEN [DefaultConfig EXCEPT !.max_index_pages = 25, !.min_index_entries = 10,
                               !.min_content_length = 250,
                               !.min_table_cell_fill = [num |-> 35, den |-> 100]]
    ELSE IF btype = "novel"
    THEN [DefaultConfig EXCEPT !.max_index_pages = 5, !.min_index_entries = 1,
                               !.min_content_length = 100, !.skip_initial_pages = 3]
    ELSE IF btype = "manual"
    THEN [DefaultConfig EXCEPT !.max_index_pages = 15, !.min_index_entries = 3,
                               !.min_content_length = 150,
                               !.min_table_cell_fill = [num |-> 3, den |-> 10]]
    ELSE DefaultConfig

(***************************************************************************)
(* PDFProcessor.  The document is what pdfplumber gives for the file: per  *)
(* page, what page.extract_text() does (a string, None, or raising).  The  *)
(* handle is the file handle of the pdfplumber object self.pdf refers to.  *)
(***************************************************************************)


\* text[:n]
Take(s, n) == SubSeq(s, 1, Min2(n, Len(s)))

\* the page indices without the clipping by min and max
sample_indices_Unclipped(tp) ==
    <<0, 5, 10, tp \div 2, tp - 5>>

\* _auto_configure: the page indices sampled
sample_indices(tp) ==
    <<0, Min2(5, tp - 1), Min2(10, tp - 1), tp \div 2, Max2(0, tp - 5)>>

\* _auto_configure: what the index idx adds to sample_pages; self.pdf.pages[idx]
\* with a negative idx counts from the end and raises IndexError out of range
sample_of(texts, tp, idx) ==
    IF ~(idx < tp) THEN <<>>
    ELSE LET pos == IF idx < 0 THEN Len(texts) + idx + 1 ELSE idx + 1
         IN  IF pos < 1 \/ pos > Len(texts) THEN <<>>
             ELSE IF texts[pos] = Raises \/ texts[pos] = None \/ texts[pos] = <<>> THEN <<>>
             ELSE <<Take(texts[pos], 1000)>>

\* _auto_configure: the indices at which self.pdf.pages[idx] gives a page
\* (a negative index counts from the end)
sample_reads(texts, tp) ==
    {idx \in {sample_indices(tp)[k] : k \in 1..5} :
        idx < tp /\ -Len(texts) <= idx /\ idx < Len(texts)}

\* no sampling was done
NoSampling == [reads |-> {}, passed |-> <<>>]

sample_pages(texts, tp) ==
    LET idxs == sample_indices(tp)
    IN  sample_of(texts, tp, idxs[1]) \o sample_of(texts, tp, idxs[2])
        \o sample_of(texts, tp, idxs[3]) \o sample_of(texts, tp, idxs[4])
        \o sample_of(texts, tp, idxs[5])

\* _auto_configure with self.book_type left as it was when no sample is usable
auto_book_type_NoFallback(texts, tp) ==
    IF sample_pages(texts, tp) # <<>>
    THEN analyze_book_type(sample_pages(texts, tp), tp)
    ELSE "none"

\* _auto_configure: the book type and the config adopted
auto_book_type(texts, tp) ==
    IF sample_pages(texts, tp) # <<>>
    THEN analyze_book_type(sample_pages(texts, tp), tp)
    ELSE "unknown"

auto_config(texts, tp) ==
    IF sample_pages(texts, tp) # <<>>
    THEN get_config_for_type(auto_book_type(texts, tp))
    ELSE DefaultConfig

\* extract_all_text: what one page adds to pages_text
page_entry(pnum, text) ==
    IF text = Raises
    THEN <<[page_number |-> pnum, text |-> <<>>, char_count |-> 0]>>
    ELSE IF text = None \/ text = <<>> THEN <<>>
    ELSE <<[page_number |-> pnum, text |-> strip(text), char_count |-> Len(text)]>>

\* the loop of extract_all_text without the try block around a page: the
\* first page that raises ends the loop
RECURSIVE pages_text_AbortOnFailure(_, _)
pages_text_AbortOnFailure(texts, pnum) ==
    IF pnum > Len(texts) \/ texts[pnum] = Raises THEN <<>>
    ELSE page_entry(pnum, texts[pnum]) \o pages_text_AbortOnFailure(texts, pnum + 1)

\* the loop of extract_all_text over the pages from pnum on
RECURSIVE pages_text(_, _)
pages_text(texts, pnum) ==
    IF pnum > Len(texts) THEN <<>>
    ELSE page_entry(pnum, texts[pnum]) \o pages_text(texts, pnum + 1)

\* the dictionary extract_all_text returns
extract_all_text(texts, tp) ==
    LET recorded == pages_text(texts, 1)
    IN  [ total_pages |-> tp,
          pages |-> recorded,
          full_text |-> join(<<"\n", "\n">>, [e \in 1..Len(recorded) |-> recorded[e].text]) ]

NoText == [total_pages |-> 0, pages |-> <<>>, full_text |-> <<>>]

Methods ==
    {"extract_all_text", "identify_first_page", "extract_index", "extract_tables",
     "extract_structured_content"}

\* the lifecycle state of the processor
ProcState ==
    IF self_pdf = "None" THEN "Unopened"
    ELSE IF handle = "closed" THEN "Closed"
    ELSE IF in_with THEN "Ready"
    ELSE "Configuring"

\* what the pages give when read through the handle: with the handle closed a
\* page either raises or answers from what pdfplumber cached
texts_read(cached) ==
    IF handle = "open" \/ cached THEN doc
    ELSE [p \in 1..Len(doc) |-> Raises]

\* __enter__ of "with PDFProcessor(...) as processor": pdfplumber.open raises
Enter_OpenRaises ==
    /\ ~in_with
    /\ last_call' = "__enter__"
    /\ ret' = [kind |-> "raised", text |-> NoText]
    /\ UNCHANGED <<doc, self_pdf, handle, self_total_pages, self_config,
                   self_book_type, self_index_extractor, self_table_extractor, in_with>>
    /\ ret_tables' = <<>> /\ ret_page' = 0 /\ arg_page_range' = <<>> /\ ret_index' = <<>> /\ sampled' = sampled
    /\ UNCHANGED doc_tables
    /\ UNCHANGED otherThanProc

\* __enter__: the document is opened and len(self.pdf.pages) raises; the
\* exception leaves __enter__, so the with statement does not call __exit__
Enter_PagesRaise ==
    /\ ~in_with
    /\ self_pdf' = "pdf"
    /\ handle' = "open"
    /\ last_call' = "__enter__"
    /\ ret' = [kind |-> "raised", text |-> NoText]
    /\ UNCHANGED <<doc, self_total_pages, self_config,
                   self_book_type, self_index_extractor, self_table_extractor, in_with>>
    /\ ret_tables' = <<>> /\ ret_page' = 0 /\ arg_page_range' = <<>> /\ ret_index' = <<>> /\ sampled' = sampled
    /\ UNCHANGED doc_tables
    /\ UNCHANGED otherThanProc

\* __enter__ returns self: opened, counted and configured; an exception
\* raised in the try block of _auto_configure (classify_raises) ends in its
\* except branch (lines 101-106)
Enter_Ok ==
    /\ ~in_with
    /\ self_pdf' = "pdf"
    /\ handle' = "open"
    /\ self_total_pages' = Len(doc)
    /\ IF self_config = <<>>
       THEN \E classify_raises \in BOOLEAN :
               IF classify_raises
               THEN /\ self_book_type' = "unknown"
                    /\ self_config' = <<DefaultConfig>>
                    /\ sampled' = NoSampling
               ELSE /\ self_book_type' = auto_book_type(doc, Len(doc))
                    /\ self_config' = <<auto_config(doc, Len(doc))>>
                    /\ sampled' = [reads |-> sample_reads(doc, Len(doc)),
                                   passed |-> sample_pages(doc, Len(doc))]
       ELSE UNCHANGED <<self_book_type, self_config, sampled>>
    /\ self_index_extractor' = self_config'
    /\ self_table_extractor' = self_config'
    /\ in_with' = TRUE
    /\ last_call' = "__enter__"
    /\ ret' = [kind |-> "returned", text |-> NoText]
    /\ UNCHANGED doc
    /\ ret_tables' = <<>> /\ ret_page' = 0 /\ arg_page_range' = <<>> /\ ret_index' = <<>>
    /\ UNCHANGED doc_tables
    /\ UNCHANGED otherThanProc

\* __exit__ at the end of the with block, reached normally or by an
\* exception raised in the block
Exit ==
    /\ in_with
    /\ \E exc \in {"returned", "raised"} :
        ret' = [kind |-> exc, text |-> NoText]
    /\ handle' = IF self_pdf # "None" THEN "closed" ELSE handle
    /\ in_with' = FALSE
    /\ last_call' = "__exit__"
    /\ UNCHANGED <<doc, self_pdf, self_total_pages, self_config,
                   self_book_type, self_index_extractor, self_table_extractor>>
    /\ ret_tables' = <<>> /\ ret_page' = 0 /\ arg_page_range' = <<>> /\ ret_index' = <<>> /\ sampled' = sampled
    /\ UNCHANGED doc_tables
    /\ UNCHANGED otherThanProc

\* extract_all_text()
CallExtractAllText ==
    /\ last_call' = "extract_all_text"
    /\ IF self_pdf = "None"
       THEN ret' = [kind |-> "RuntimeError", text |-> NoText]
       ELSE \E cached \in BOOLEAN :
              ret' = [kind |-> "result",
                      text |-> extract_all_text(texts_read(cached), self_total_pages)]
    /\ UNCHANGED <<doc, self_pdf, handle, self_total_pages, self_config,
                   self_book_type, self_index_extractor, self_table_extractor, in_with>>
    /\ ret_tables' = <<>> /\ ret_page' = 0 /\ arg_page_range' = <<>> /\ ret_index' = <<>> /\ sampled' = sampled
    /\ UNCHANGED doc_tables
    /\ UNCHANGED otherThanProc

\* what page.extract_tables() does when called through the handle
tables_read(cached) ==
    IF handle = "open" \/ cached THEN doc_tables
    ELSE [p \in 1..Len(doc_tables) |-> TablesRaise]

\* the page ranges extract_tables is called with: None, or (start, end)
PageRanges == {<<>>, <<1, 1>>, <<2, 3>>, <<0, 1>>}

\* identify_first_page()
CallIdentifyFirstPage ==
    /\ last_call' = "identify_first_page"
    /\ IF self_pdf = "None"
       THEN /\ ret' = [kind |-> "RuntimeError", text |-> NoText]
            /\ ret_page' = 0
       ELSE \E cached \in BOOLEAN :
              /\ ret' = [kind |-> "result", text |-> NoText]
              /\ ret_page' = identify_first_page(texts_read(cached), self_config)
    /\ ret_tables' = <<>> /\ arg_page_range' = <<>> /\ ret_index' = <<>> /\ sampled' = sampled
    /\ UNCHANGED <<doc, doc_tables, self_pdf, handle, self_total_pages, self_config,
                   self_book_type, self_index_extractor, self_table_extractor, in_with>>
    /\ UNCHANGED otherThanProc

\* extract_tables(page_range); a missing table extractor is created with the
\* default config
CallExtractTables ==
    /\ last_call' = "extract_tables"
    /\ arg_page_range' \in PageRanges /\ ret_index' = <<>> /\ sampled' = sampled
    /\ IF self_pdf = "None"
       THEN /\ ret' = [kind |-> "RuntimeError", text |-> NoText]
            /\ ret_tables' = <<>>
            /\ UNCHANGED self_table_extractor
       ELSE \E cached \in BOOLEAN :
              /\ self_table_extractor' =
                    IF self_table_extractor = <<>> THEN <<DefaultConfig>>
                    ELSE self_table_extractor
              /\ ret' = [kind |-> "result", text |-> NoText]
              /\ ret_tables' = extract_tables(tables_read(cached), self_total_pages,
                                              arg_page_range', self_table_extractor'[1])
    /\ ret_page' = 0
    /\ UNCHANGED <<doc, doc_tables, self_pdf, handle, self_total_pages, self_config,
                   self_book_type, self_index_extractor, in_with>>
    /\ UNCHANGED otherThanProc

\* extract_index(max_pages_to_check) inside the with block of a processor
\* that has a config: a missing index extractor is created with the default
\* config, and the pages with a text are handed to it (lines 233-259)
CallExtractIndex ==
    /\ self_pdf # "None" /\ self_config # <<>>
    /\ last_call' = "extract_index"
    /\ self_index_extractor' =
          IF self_index_extractor = <<>> THEN <<DefaultConfig>> ELSE self_index_extractor
    /\ \E cached \in BOOLEAN, max_pages_to_check \in {<<>>, <<2>>} :
          /\ ret' = [kind |-> "result", text |-> NoText]
          /\ ret_index' = extract_index(texts_read(cached), self_total_pages,
                                        max_pages_to_check, self_config[1],
                                        self_index_extractor'[1])
    /\ UNCHANGED sampled
    /\ ret_tables' = <<>> /\ ret_page' = 0 /\ arg_page_range' = <<>>
    /\ UNCHANGED <<doc, doc_tables, self_pdf, handle, self_total_pages, self_config,
                   self_book_type, self_table_extractor, in_with>>
    /\ UNCHANGED otherThanProc

\* extract_index() and extract_structured_content(): the guard, and whether
\* a value is returned.  Both read self.config.max_index_pages, which raises
\* AttributeError while self.config is None; a missing extractor is created
\* with the default config (extract_structured_content reaches extract_tables
\* only after extract_index returned).
CallOther ==
    /\ \E m \in {"extract_index", "extract_structured_content"} :
        /\ last_call' = m
        /\ IF self_pdf = "None"
           THEN ret' = [kind |-> "RuntimeError", text |-> NoText]
           ELSE IF self_config = <<>>
           THEN ret' = [kind |-> "AttributeError", text |-> NoText]
           ELSE ret' = [kind |-> "result", text |-> NoText]
        /\ self_index_extractor' =
              IF self_pdf # "None" /\ self_index_extractor = <<>>
              THEN <<DefaultConfig>> ELSE self_index_extractor
        /\ self_table_extractor' =
              IF self_pdf # "None" /\ m = "extract_structured_content"
                 /\ self_config # <<>> /\ self_table_extractor = <<>>
              THEN <<DefaultConfig>> ELSE self_table_extractor
    /\ ret_tables' = <<>> /\ ret_page' = 0 /\ arg_page_range' = <<>> /\ ret_index' = <<>> /\ sampled' = sampled
    /\ UNCHANGED <<doc, doc_tables, self_pdf, handle, self_total_pages, self_config,
                   self_book_type, in_with>>
    /\ UNCHANGED otherThanProc

(***************************************************************************)
(* PDFExtractorService.extract_from_pdf (service.py) and the constructor   *)
(* of PDFProcessor, over a file system of documents and output files.      *)
(***************************************************************************)
\* a path with no file behind it
Absent == [exists |-> FALSE, texts |-> <<>>, tabs |-> <<>>]

\* the job id in use (lines 54-57): the given one, or one made of the time
job_of(job_id, timestamp) ==
    IF job_id = <<>> THEN <<"pdf_extract", timestamp>> ELSE job_id

\* the names of the CSV files written for the tables (lines 134-141)
table_files(tables_data) ==
    { <<"tables", tables_data[t].page_number, tables_data[t].table_index>> :
      t \in 1..Len(tables_data) }

\* what the processor of the with block gives (lines 64-83): None for a
\* call that is not made; <<>> is None
processor_results(document, classify_raises) ==
    LET tp == Len(document.texts)
        cfg == IF classify_raises THEN DefaultConfig
               ELSE auto_config(document.texts, tp)
    IN  [first_page |-> IF document.exists
                        THEN identify_first_page(document.texts, <<cfg>>) ELSE 0,
         index_data |-> IF document.exists
                        THEN extract_index(document.texts, tp, <<>>, cfg, cfg) ELSE <<>>,
         tables_data |-> IF document.exists
                         THEN extract_tables(document.tabs, tp, <<>>, cfg) ELSE <<>>]

\* extract_from_pdf with the existence check after the job directory is made
extract_from_pdf_DirectoryFirst(document, job, flags, enter, results) ==
    [kind |-> IF document.exists THEN "raised" ELSE "FileNotFoundError",
     job |-> job, created |-> {<<job, <<"directory">>>>}, opened |-> FALSE]

\* extract_from_pdf (lines 49-158) on the document behind pdf_path: how the
\* call ends, what it creates under output_dir and whether pdfplumber.open
\* was called; enter is how __enter__ of the processor ends and results is
\* what the processor's methods give
extract_from_pdf(document, job, flags, enter, results) ==
    IF ~document.exists
    THEN [kind |-> "FileNotFoundError", job |-> <<>>, created |-> {}, opened |-> FALSE]
    ELSE IF enter # "ok"
    THEN [kind |-> "raised", job |-> job, created |-> {<<job, <<"directory">>>>},
          opened |-> TRUE]
    ELSE LET index_data == IF flags.extract_index THEN results.index_data ELSE <<>>
             tables_data == IF flags.extract_tables THEN results.tables_data ELSE <<>>
             names == {<<"extraction.json">>, <<"full_text.txt">>}
                      \cup (IF index_data # <<>> THEN {<<"index.txt">>} ELSE {})
                      \cup (IF tables_data # <<>>
                            THEN {<<"tables">>} \cup table_files(tables_data) ELSE {})
         IN  [kind |-> "result", job |-> job,
              created |-> {<<job, <<"directory">>>>} \cup {<<job, n>> : n \in names},
              opened |-> TRUE]

\* PDFProcessor(pdf_path, config): FileNotFoundError, or the fields of
\* lines 39-44
NewProcessor ==
    \E path \in DOMAIN fs_documents, cfg \in {<<>>, <<DefaultConfig>>} :
       /\ svc_call' = [op |-> "PDFProcessor", pdf_path |-> path, job_id |-> <<>>]
       /\ IF ~fs_documents[path].exists
          THEN /\ svc_ret' = [kind |-> "FileNotFoundError", job |-> <<>>]
               /\ UNCHANGED procVars
          ELSE /\ svc_ret' = [kind |-> "returned", job |-> <<>>]
               /\ doc' = fs_documents[path].texts
               /\ doc_tables' = fs_documents[path].tabs
               /\ self_pdf' = "None" /\ handle' = "none" /\ self_total_pages' = 0
               /\ self_config' = cfg /\ self_book_type' = "none"
               /\ self_index_extractor' = <<>> /\ self_table_extractor' = <<>>
               /\ in_with' = FALSE /\ last_call' = "none"
               /\ ret' = [kind |-> "none", text |-> NoText]
               /\ ret_tables' = <<>> /\ ret_page' = 0 /\ arg_page_range' = <<>> /\ ret_index' = <<>> /\ sampled' = NoSampling
       /\ UNCHANGED <<fs_documents, fs_output, opened_paths>>
       /\ UNCHANGED otherThanService

\* service.extract_from_pdf(pdf_path, job_id, extract_tables, extract_index,
\* identify_first_page); the processor it uses is local to the call
ExtractFromPdf ==
    \E path \in DOMAIN fs_documents, classify_raises \in BOOLEAN :
    \E results \in {processor_results(fs_documents[path], classify_raises)} :
    \E job_id \in {<<>>, <<"job1">>}, timestamp \in {"20260101_000000"},
       flags \in [extract_tables : BOOLEAN, extract_index : BOOLEAN,
                  identify_first_page : BOOLEAN],
       enter \in {"ok", "open raises", "pages raise"} :
    \E r \in {extract_from_pdf(fs_documents[path], job_of(job_id, timestamp), flags,
                               enter, results)} :
       /\ svc_call' = [op |-> "extract_from_pdf", pdf_path |-> path, job_id |-> job_id]
       /\ svc_ret' = [kind |-> r.kind, job |-> r.job]
       /\ fs_output' = fs_output \cup r.created
       /\ opened_paths' = opened_paths \cup (IF r.opened THEN {path} ELSE {})
       /\ UNCHANGED fs_documents
       /\ UNCHANGED procVars
       /\ UNCHANGED otherThanService

(***************************************************************************)
(* The variables of an operation that a run does not call.                 *)
(***************************************************************************)
IdleClassify ==
    /\ text_samples = <<>> /\ total_pages = 0 /\ book_type = "none"
    /\ previous_type = "none" /\ watched_call = <<>>

IdleTable ==
    /\ raw_tables = <<>> /\ tables_raise = FALSE /\ page_num = 0 /\ tidx = 0
    /\ valid_tables = <<>> /\ tpc = "idle" /\ tables_result = <<>>
    /\ runs = 0 /\ first_result = <<>>


IdleProc ==
    /\ doc = <<>> /\ doc_tables = <<>> /\ ret_tables = <<>> /\ ret_page = 0 /\ arg_page_range = <<>> /\ ret_index = <<>> /\ sampled = NoSampling
    /\ self_pdf = "None" /\ handle = "none" /\ self_total_pages = 0
    /\ self_config = <<>> /\ self_book_type = "none"
    /\ self_index_extractor = <<>> /\ self_table_extractor = <<>>
    /\ in_with = FALSE /\ last_call = "none"
    /\ ret = [kind |-> "none", text |-> NoText]


IdleIndex ==
    /\ pages = <<>> /\ max_pages = <<>> /\ index_pages = <<>> /\ strategy = "none"
    /\ lines = <<>> /\ li = 0 /\ entries = <<>> /\ current_entry = <<>>
    /\ cur_alias = {} /\ seen_titles = {} /\ start_collecting = FALSE
    /\ ipc = "idle" /\ filtered_entries = <<>> /\ index_result = <<>>

IdleService ==
    /\ fs_documents = <<>> /\ fs_output = {} /\ opened_paths = {}
    /\ svc_call = [op |-> "none", pdf_path |-> "none", job_id |-> <<>>]
    /\ svc_ret = [kind |-> "none", job |-> <<>>]

(***************************************************************************)
(* Classification runs: the arguments of the first call are drawn at Init, *)
(* Classify is one call of analyze_book_type, ClassifyAgain is the caller  *)
(* making another call, with the same or other arguments.                  *)
(***************************************************************************)
MaxSamples == 2
PageCounts == {0, 50, 100, 101, 250}

SampleInputs ==
    SeqsUpTo(SamplePool, MaxSamples) \cup {Scenario1Samples, Scenario2Samples}

ClassifyStart ==
    /\ text_samples \in SampleInputs
    /\ total_pages \in PageCounts
    /\ book_type = "none"
    /\ previous_type = "none" /\ watched_call = <<>>

InitClassify == ClassifyStart /\ config = DefaultConfig /\ IdleTable /\ IdleProc /\ IdleIndex /\ IdleService

\* analyze_book_type that falls back to the type the previous call found
Classify_KeepsLastType ==
    /\ book_type = "none"
    /\ book_type' = IF analyze_book_type(text_samples, total_pages) = "unknown"
                       /\ previous_type # "none"
                    THEN previous_type
                    ELSE analyze_book_type(text_samples, total_pages)
    /\ UNCHANGED <<text_samples, total_pages, previous_type, watched_call>>
    /\ UNCHANGED otherThanClassify

\* analyze_book_type(text_samples, total_pages): a static method
Classify ==
    /\ book_type = "none"
    /\ book_type' = analyze_book_type(text_samples, total_pages)
    /\ UNCHANGED <<text_samples, total_pages, previous_type, watched_call>>
    /\ UNCHANGED otherThanClassify

\* the arguments of a call made in between
OtherCall ==
    [text_samples |-> << <<"h","o","w"," ","t","o"," ","g","u","i","d","e">> >>, total_pages |-> 50]

\* the caller makes another call, the first call being remembered: with
\* the arguments of the first call, or with other ones
ClassifyAgain ==
    /\ book_type # "none"
    /\ watched_call' =
          IF watched_call = <<>>
          THEN <<[text_samples |-> text_samples, total_pages |-> total_pages,
                  book_type |-> book_type]>>
          ELSE watched_call
    /\ previous_type' = book_type
    /\ \E args \in {OtherCall, [text_samples |-> watched_call'[1].text_samples,
                                total_pages |-> watched_call'[1].total_pages]} :
          /\ text_samples' = args.text_samples
          /\ total_pages' = args.total_pages
    /\ book_type' = "none"
    /\ UNCHANGED otherThanClassify

NextClassify == Classify \/ ClassifyAgain

SpecClassify == InitClassify /\ [][NextClassify]_vars

(***************************************************************************)
(* Table extraction runs: the page's raw grids, the page number and the    *)
(* config are drawn at Init.                                               *)
(***************************************************************************)
MaxRows == 3
MaxTables == 3

\* a cell longer than the default max_cell_length
LongCell == [i \in 1..(DefaultConfig.max_cell_length + 1) |-> "x"]

RowPool ==
    { <<>>,
      <<None, <<>>>>,
      <<<<"a">>, <<"b">>>>,
      <<<<"a">>>>,
      <<<<"x">>, <<"y">>, <<"z">>>>,
      <<<<" ","c"," ">>, None>>,
      <<LongCell, <<"d">>>>,
      <<LongCell, LongCell>>,
      <<<<"e">>, None, None, None>> }

\* raw grids for pages with several grids: empty, header + one data row,
\* a single row, ragged rows
GridPool ==
    { <<>>,
      <<<<<<"a">>, <<"b">>>>, <<<<"x">>, <<"y">>, <<"z">>>>>>,
      <<<<<<"a">>>>>>,
      <<<<<<"a">>>>, <<<<"a">>, <<"b">>>>, <<<<"x">>, <<"y">>, <<"z">>>>>> }

PageGrids ==
    {<<g>> : g \in SeqsUpTo(RowPool, MaxRows)} \cup SeqsUpTo(GridPool, MaxTables)

TableConfigs ==
    { DefaultConfig,
      [DefaultConfig EXCEPT !.max_cell_length = 2, !.min_table_cols = 1,
                            !.min_table_cell_fill = [num |-> 4, den |-> 10]] }

PageNums == {1, 4}

TableStart ==
    /\ tables_raise \in BOOLEAN
    /\ raw_tables \in (IF tables_raise THEN {<<>>} ELSE PageGrids)
    /\ page_num \in PageNums
    /\ tidx = 0 /\ valid_tables = <<>> /\ tpc = "call" /\ tables_result = <<>>
    /\ runs = 1 /\ first_result = <<>>

InitTable == TableStart /\ config \in TableConfigs /\ IdleClassify /\ IdleProc /\ IdleIndex /\ IdleService

NextTable == ExtractRaises \/ ExtractGrid \/ ExtractReturn \/ ExtractAgain

SpecTable == InitTable /\ [][NextTable]_vars

(***************************************************************************)
(* Processor runs: a PDFProcessor constructed on an existing file, with or *)
(* without an explicit config, and a caller that uses it in with blocks    *)
(* and calls its methods inside and outside of them.                       *)
(***************************************************************************)
MaxDocPages == 2

\* what page.extract_text() gives: None, "", raising, or text
DocTextPool ==
    { None,
      <<>>,
      Raises,
      <<" "," ","P","r","e","f","a","c","e"," ","\n">>,
      <<"C","h","a","p","t","e","r"," ","1">> }

ExplicitConfigs == {[DefaultConfig EXCEPT !.min_index_entries = 1]}

\* the state __init__ leaves (lines 39-44)
ProcStart ==
    /\ doc \in SeqsUpTo(DocTextPool, MaxDocPages)
    /\ doc_tables = [p \in 1..Len(doc) |-> NoTables]
    /\ ret_tables = <<>> /\ ret_page = 0 /\ arg_page_range = <<>> /\ ret_index = <<>> /\ sampled = NoSampling
    /\ self_pdf = "None" /\ handle = "none" /\ self_total_pages = 0
    /\ self_config \in {<<>>} \cup {<<c>> : c \in ExplicitConfigs}
    /\ self_book_type = "none"
    /\ self_index_extractor = <<>> /\ self_table_extractor = <<>>
    /\ in_with = FALSE /\ last_call = "none"
    /\ ret = [kind |-> "none", text |-> NoText]

InitProc == ProcStart /\ config = DefaultConfig /\ IdleClassify /\ IdleTable /\ IdleIndex /\ IdleService

NextProc ==
    \/ Enter_OpenRaises \/ Enter_PagesRaise \/ Enter_Ok \/ Exit
    \/ CallExtractAllText \/ CallIdentifyFirstPage \/ CallExtractTables \/ CallOther

SpecProc == InitProc /\ [][NextProc]_vars

(***************************************************************************)
(* Sampling runs: a PDFProcessor constructed without a config on a         *)
(* document of 0 to MaxSamplePages pages, entered and left by with         *)
(* blocks.  The pages hold a short text, except for at most one page with  *)
(* a text of more than 1000 characters and at most one page without text.  *)
(***************************************************************************)
MaxSamplePages == 12

ShortSample == <<"C","h","a","p","t","e","r"," ","1">>
LongSample == [i \in 1..1001 |-> "x"]

\* the long page is the first, the middle or the last page, or none is; the
\* page without text is the first or the sixth, or none is
SampleDocsOf(tp) ==
    { [p \in 1..tp |-> IF p = q THEN LongSample ELSE IF p = r THEN bad ELSE ShortSample] :
      q \in {0, 1, tp \div 2 + 1, tp}, r \in {0, 1, 6}, bad \in {None, Raises} }

SampleDocs == UNION {SampleDocsOf(tp) : tp \in 0..MaxSamplePages}

\* the state __init__ leaves for a processor without a config (lines 39-44)
SampleStart ==
    /\ doc \in SampleDocs
    /\ doc_tables = [p \in 1..Len(doc) |-> NoTables]
    /\ ret_tables = <<>> /\ ret_page = 0 /\ arg_page_range = <<>> /\ ret_index = <<>>
    /\ sampled = NoSampling
    /\ self_pdf = "None" /\ handle = "none" /\ self_total_pages = 0
    /\ self_config = <<>> /\ self_book_type = "none"
    /\ self_index_extractor = <<>> /\ self_table_extractor = <<>>
    /\ in_with = FALSE /\ last_call = "none"
    /\ ret = [kind |-> "none", text |-> NoText]

InitSample ==
    SampleStart /\ config = DefaultConfig /\ IdleClassify /\ IdleTable /\ IdleIndex /\ IdleService

NextSample == Enter_Ok \/ Exit

SpecSample == InitSample /\ [][NextSample]_vars

(***************************************************************************)
(* Call runs: a PDFProcessor inside its with block, opened with an         *)
(* explicit config on a document of at most MaxCallPages pages, and the    *)
(* calls of extract_all_text, identify_first_page and extract_tables.      *)
(* A document either has text on its pages or tables on its pages.         *)
(***************************************************************************)
MaxCallPages == 3

\* what page.extract_text() gives: None, "", raising, a text shorter than
\* min_content_length with an indicator, a text with an indicator, a text
\* without one, and a text longer than 1.5 times min_content_length
CallTextPool ==
    { None,
      <<>>,
      Raises,
      <<"P","r","e","f","a","c","e">>,
      <<"C","h","a","p","t","e","r"," ","1">>,
      <<"S","o","m","e"," ","w","o","r","d","s">>,
      <<"P","l","a","i","n"," ","t","e","x","t"," ","o","n","l","y">> }

\* what page.extract_tables() gives: raising, no grid, one grid that is
\* accepted, a rejected grid followed by an accepted one
CallTablePool ==
    { TablesRaise,
      NoTables,
      [raises |-> FALSE, grids |-> << <<<<<<"a">>, <<"b">>>>, <<<<"c">>, <<"d">>>>>> >>],
      [raises |-> FALSE, grids |-> << <<<<<<"a">>>>>>,
                                      <<<<<<"h">>, <<"i">>>>, <<<<"x">>, <<"y">>, <<"z">>>>>> >>] }

CallConfigs ==
    { [DefaultConfig EXCEPT !.min_content_length = 8],
      [DefaultConfig EXCEPT !.min_content_length = 8, !.skip_initial_pages = 1] }

\* the state __enter__ leaves for an explicit config (lines 48-58)
CallStart ==
    /\ \/ /\ doc \in SeqsUpTo(CallTextPool, MaxCallPages)
          /\ doc_tables = [p \in 1..Len(doc) |-> NoTables]
       \/ /\ doc_tables \in SeqsUpTo(CallTablePool, MaxCallPages)
          /\ doc = [p \in 1..Len(doc_tables) |-> None]
    /\ self_pdf = "pdf" /\ handle = "open" /\ self_total_pages = Len(doc)
    /\ self_config \in {<<c>> : c \in CallConfigs}
    /\ self_book_type = "none"
    /\ self_index_extractor = self_config /\ self_table_extractor = self_config
    /\ in_with = TRUE /\ last_call = "__enter__"
    /\ ret = [kind |-> "returned", text |-> NoText]
    /\ ret_tables = <<>> /\ ret_page = 0 /\ arg_page_range = <<>> /\ ret_index = <<>> /\ sampled = NoSampling

InitCalls == CallStart /\ config = DefaultConfig /\ IdleClassify /\ IdleTable /\ IdleIndex /\ IdleService

NextCalls == CallExtractAllText \/ CallIdentifyFirstPage \/ CallExtractTables

SpecCalls == InitCalls /\ [][NextCalls]_vars

(***************************************************************************)
(* Index call runs: a PDFProcessor inside its with block, opened with an   *)
(* explicit config on a document of at most MaxIndexCallPages pages, and   *)
(* the calls of extract_index and extract_all_text.                        *)
(***************************************************************************)
MaxIndexCallPages == 3

\* pages for extract_index: a contents page, a page of numbered entries, and
\* pages without a text
IndexTextPool ==
    { <<"C","o","n","t","e","n","t","s","\n","1","."," ","I","n","t","r","o"," ",".",".","."," ","5">>,
      <<"1","."," ","A","l","p","h","a"," ","o","n","e","\n","2","."," ","B","e","t","a"," ","t","w","o","\n","3","."," ","G","a","m","m","a"," ","t","h","r","e","e">>,
      None,
      Raises }

\* the state __enter__ leaves for an explicit config (lines 48-58)
IndexCallStart ==
    /\ doc \in SeqsUpTo(IndexTextPool, MaxIndexCallPages)
    /\ doc_tables = [p \in 1..Len(doc) |-> NoTables]
    /\ self_pdf = "pdf" /\ handle = "open" /\ self_total_pages = Len(doc)
    /\ self_config \in {<<c>> : c \in CallConfigs}
    /\ self_book_type = "none"
    /\ self_index_extractor = self_config /\ self_table_extractor = self_config
    /\ in_with = TRUE /\ last_call = "__enter__"
    /\ ret = [kind |-> "returned", text |-> NoText]
    /\ ret_tables = <<>> /\ ret_page = 0 /\ arg_page_range = <<>> /\ ret_index = <<>>
    /\ sampled = NoSampling

InitIndexCalls ==
    IndexCallStart /\ config = DefaultConfig /\ IdleClassify /\ IdleTable /\ IdleIndex /\ IdleService

NextIndexCalls == CallExtractIndex \/ CallExtractAllText

SpecIndexCalls == InitIndexCalls /\ [][NextIndexCalls]_vars

(***************************************************************************)
(* Index runs: extract(pages, max_pages) on one-page documents made of at  *)
(* most MaxLines lines of LinePool, with or without a heading line before  *)
(* them, on documents made of pages of PagePool, and on the table of       *)
(* contents of three numbered entries with dotted leaders.                 *)
(***************************************************************************)
MaxLines == 2
MaxPages == 2
MaxLocatePages == 4

LinePool ==
    { <<"C","o","n","t","e","n","t","s">>,
      <<"1","."," ","I","n","t","r","o"," ",".",".","."," ","5">>,
      <<"2"," ","I","n","t","r","o">>,
      <<>>,
      <<"N","o","t","e","s">>,
      <<"t","h","e"," ","e","n","d"," ","o","f"," ","i","t">>,
      <<"s","e","e"," ","p",".","4">>,
      <<"I","n","t","r","o",".">> }

PagePool ==
    { <<"C","o","n","t","e","n","t","s","\n","1","."," ","I","n","t","r","o"," ",".",".","."," ","5">>,
      <<"1","."," ","A","l","p","h","a"," ","o","n","e","\n","2","."," ","B","e","t","a"," ","t","w","o","\n","3","."," ","G","a","m","m","a"," ","t","h","r","e","e">>,
      <<"A","l","p","h","a"," ","a","n","d"," ","B","e","t","a","\n","G","a","m","m","a"," ","a","n","d"," ","D","e","l","t","a","\n","K","a","p","p","a"," ","a","n","d"," ","L","a","m","b","d","a","\n","S","i","g","m","a"," ","a","n","d"," ","O","m","e","g","a","\n","T","h","e","t","a"," ","a","n","d"," ","Z","e","t","a">>,
      <<"t","h","e"," ","e","n","d"," ","o","f"," ","i","t">> }

Heading == <<"C","o","n","t","e","n","t","s">>

\* a page with an index keyword, a page that passes the continuation test,
\* and a page of body text
LocatePool ==
    { <<"C","o","n","t","e","n","t","s","\n","1","."," ","I","n","t","r","o"," ",".",".","."," ","5">>,
      <<"1","."," ","A","l","p","h","a"," ","o","n","e","\n","2","."," ","B","e","t","a"," ","t","w","o","\n","3","."," ","G","a","m","m","a"," ","t","h","r","e","e">>,
      <<"t","h","e"," ","e","n","d"," ","o","f"," ","i","t">> }

ContentsPage ==
    <<"T","a","b","l","e"," ","o","f"," ","C","o","n","t","e","n","t","s","\n","1","."," ","I","n","t","r","o","d","u","c","t","i","o","n"," ",".",".","."," ","5","\n","2","."," ","M","e","t","h","o","d","s"," ",".",".","."," ","2","0","\n","3","."," ","R","e","s","u","l","t","s"," ",".",".","."," ","4","5","\n">>

\* a page whose heading comes after a numbered line
LateHeadingPage ==
    <<"1","."," ","A","l","p","h","a"," ",".",".","."," ","3","\n","C","o","n","t","e","n","t","s","\n","1","."," ","I","n","t","r","o"," ",".",".","."," ","5">>

\* the list of page dicts of a document with these page texts
as_pages(texts) == [i \in 1..Len(texts) |-> [page_number |-> i, text |-> texts[i]]]

IndexDocs ==
    {as_pages(<<join(<<"\n">>, ls)>>) : ls \in SeqsUpTo(LinePool, MaxLines)}
    \cup {as_pages(<<join(<<"\n">>, <<Heading>> \o ls)>>) : ls \in SeqsUpTo(LinePool, MaxLines)}
    \cup {as_pages(ts) : ts \in SeqsUpTo(PagePool, MaxPages)}
    \cup {as_pages(ts) : ts \in SeqsUpTo(LocatePool, MaxLocatePages)}
    \cup {as_pages(<<ContentsPage>>), as_pages(<<LateHeadingPage>>)}

IndexConfigs ==
    {DefaultConfig, get_config_for_type("novel"),
     [DefaultConfig EXCEPT !.min_index_entries = 2]}

\* extract is called
IndexStart ==
    /\ pages \in IndexDocs
    /\ max_pages \in {<<>>, <<1>>}
    /\ Len(pages) < 2 => max_pages = <<>>
    /\ index_pages = <<>> /\ strategy = "none" /\ lines = <<>> /\ li = 0
    /\ entries = <<>> /\ current_entry = <<>> /\ cur_alias = {}
    /\ seen_titles = {} /\ start_collecting = FALSE
    /\ ipc = "locate" /\ filtered_entries = <<>> /\ index_result = <<>>

InitIndex ==
    IndexStart /\ config \in IndexConfigs /\ IdleClassify /\ IdleTable /\ IdleProc /\ IdleService

NextIndex == LocatePages \/ ScanLine \/ FinishExtract

SpecIndex == InitIndex /\ [][NextIndex]_vars

(***************************************************************************)
(* Scan runs: extract(pages) on one-page documents made of a heading line  *)
(* and at most MaxScanLines lines of ScanPool, which holds lines of every  *)
(* kind the loop of _extract_entries_adaptive tells apart.                 *)
(***************************************************************************)
MaxScanLines == 3

\* a line of 251 characters, and a line of 153 characters that starts with a
\* function word followed by lowercase text
Long251 == [i \in 1..251 |-> "z"]
FunctionWordLong == <<"w","e"," ">> \o [i \in 1..150 |-> "y"]

\* a heading too short for the third pattern, an entry with enumerator and
\* dotted leader, a heading after a roman numeral, a heading with a dotted
\* leader, the two long lines, a short line that starts with a function
\* word
ScanPool ==
    { <<"A","b","c">>,
      <<"1","."," ","A","b","c"," ",".",".","."," ","5">>,
      <<"I"," ","A","b","c">>,
      <<"N","o","t","e","s"," ",".",".","."," ","1","2","3">>,
      Long251,
      FunctionWordLong,
      <<"t","h","e"," ","e","n","d"," ","o","f"," ","i","t">> }

ScanDocs ==
    {as_pages(<<join(<<"\n">>, <<Heading>> \o ls)>>) : ls \in SeqsUpTo(ScanPool, MaxScanLines)}

ScanConfigs == {DefaultConfig, [DefaultConfig EXCEPT !.min_index_entries = 1]}

\* extract is called
ScanStart ==
    /\ pages \in ScanDocs
    /\ max_pages = <<>>
    /\ index_pages = <<>> /\ strategy = "none" /\ lines = <<>> /\ li = 0
    /\ entries = <<>> /\ current_entry = <<>> /\ cur_alias = {}
    /\ seen_titles = {} /\ start_collecting = FALSE
    /\ ipc = "locate" /\ filtered_entries = <<>> /\ index_result = <<>>

InitScan ==
    ScanStart /\ config \in ScanConfigs /\ IdleClassify /\ IdleTable /\ IdleProc /\ IdleService

NextScan == LocatePages \/ ScanLine \/ FinishExtract

SpecScan == InitScan /\ [][NextScan]_vars

(***************************************************************************)
(* Service runs: a PDFExtractorService over two paths, one with a document *)
(* behind it and one without, and callers that construct processors and    *)
(* call extract_from_pdf.                                                  *)
(***************************************************************************)
Paths == {"book.pdf", "missing.pdf"}

\* a document with a contents page, and a document with a table
ServiceDocs ==
    { [exists |-> TRUE,
       texts |-> << <<"C","o","n","t","e","n","t","s","\n",
                      "1","."," ","A","b","c"," ",".",".","."," ","5","\n",
                      "2","."," ","D","e","f"," ",".",".","."," ","7","\n",
                      "3","."," ","G","h","i"," ",".",".","."," ","9">>,
                    <<"C","h","a","p","t","e","r"," ","1">> >>,
       tabs |-> <<NoTables, NoTables>>],
      [exists |-> TRUE,
       texts |-> << None >>,
       tabs |-> << [raises |-> FALSE,
                    grids |-> << <<<<<<"a">>, <<"b">>>>, <<<<"c">>, <<"d">>>>>> >>] >>] }

ServiceStart ==
    /\ fs_documents \in [Paths -> ServiceDocs \cup {Absent}]
    /\ fs_documents["book.pdf"].exists /\ ~fs_documents["missing.pdf"].exists
    /\ fs_output = {} /\ opened_paths = {}
    /\ svc_call = [op |-> "none", pdf_path |-> "none", job_id |-> <<>>]
    /\ svc_ret = [kind |-> "none", job |-> <<>>]

InitService ==
    ServiceStart /\ config = DefaultConfig /\ IdleClassify /\ IdleTable /\ IdleProc /\ IdleIndex

NextService == NewProcessor \/ ExtractFromPdf

SpecService == InitService /\ [][NextService]_vars

(***************************************************************************)
(* The claims.                                                             *)
(***************************************************************************)
\* C1: analyze_book_type decides by the fixed priority academic >= 3, then
\* novel >= 2 with more than 100 pages, then manual >= 2, then academic >= 2,
\* else unknown; novel >= 2 with at most 100 pages never gives novel, and
\* empty samples give unknown.
C1_Priority ==
    book_type # "none" =>
        LET text == combined_text(text_samples)
            a == Score(academic_indicators, text)
            n == Score(novel_indicators, text)
            m == Score(manual_indicators, text)
        IN  /\ a >= 3 => book_type = "academic"
            /\ (a < 3 /\ n >= 2 /\ total_pages > 100) => book_type = "novel"
            /\ (a < 3 /\ ~(n >= 2 /\ total_pages > 100) /\ m >= 2) => book_type = "manual"
            /\ (a = 2 /\ ~(n >= 2 /\ total_pages > 100) /\ m < 2) => book_type = "textbook"
            /\ (a < 2 /\ ~(n >= 2 /\ total_pages > 100) /\ m < 2) => book_type = "unknown"
            /\ (n >= 2 /\ total_pages <= 100) => book_type # "novel"
            /\ text_samples = <<>> => book_type = "unknown"
            /\ (text_samples = Scenario1Samples /\ total_pages = 50) => book_type = "academic"
            /\ (text_samples = Scenario2Samples /\ total_pages = 250) => book_type = "novel"

\* a run where academic >= 3 and novel >= 2 with more than 100 pages was classified
C1_Witness ==
    /\ book_type = "academic"
    /\ total_pages > 100
    /\ Score(novel_indicators, combined_text(text_samples)) >= 2

\* C2: every index extraction that returns a result returns entries of which
\* no two have the same lower-cased, trimmed title.
C2_TitlesDeduplicated ==
    index_result # <<>> =>
        \A i, j \in 1..Len(index_result[1].entries) :
            i # j => title_key(index_result[1].entries[i].title)
                     # title_key(index_result[1].entries[j].title)

\* a result was returned from a scan whose entry list held the same title
\* twice
C2_Witness ==
    /\ ipc = "done" /\ index_result # <<>>
    /\ \E i, j \in 1..Len(entries) :
          i < j /\ title_key(entries[i].title) = title_key(entries[j].title)

\* C3: extract never returns a partial list: with fewer accepted entries than
\* min_index_entries the result is none, and a result holds the accepted
\* entries, at least min_index_entries of them.
C3_NoPartialList ==
    ipc = "done" =>
        /\ Len(filtered_entries) < config.min_index_entries => index_result = <<>>
        /\ index_result # <<>> =>
              /\ index_result[1].entries = filtered_entries
              /\ Len(index_result[1].entries) >= config.min_index_entries

\* index pages were located and some entries accepted, but fewer than the
\* minimum
C3_Witness ==
    /\ ipc = "done" /\ index_pages # <<>>
    /\ 0 < Len(filtered_entries)
    /\ Len(filtered_entries) < config.min_index_entries
    /\ index_result = <<>>


\* C4: in every StructuredTable emitted, each data row has exactly as many
\* cells as the header (the raw row's cleaned cells, cut at the header's
\* width and filled up with empty strings), column_count is the header's
\* length and row_count the number of data rows.
C4_RowsMatchHeader ==
    \A k \in 1..Len(valid_tables) :
        LET t == valid_tables[k]
            rows == non_empty_rows(raw_tables[t.table_index])
        IN  /\ t.column_count = Len(t.header)
            /\ t.row_count = Len(t.data)
            /\ t.row_count = Len(rows) - 1
            /\ \A r \in 1..Len(t.data) :
                /\ Len(t.data[r]) = Len(t.header)
                /\ \A c \in 1..Len(t.header) :
                    t.data[r][c] =
                        IF c <= Len(rows[r + 1]) THEN cleaned(rows[r + 1])[c] ELSE <<>>

\* a returned table built from a grid with a data row wider than the header
\* and a data row narrower than the header
C4_Witness ==
    /\ tpc = "returned"
    /\ \E k \in 1..Len(tables_result) :
        LET t == tables_result[k]
            rows == non_empty_rows(raw_tables[t.table_index])
        IN  /\ \E r \in 2..Len(rows) : Len(rows[r]) > t.column_count
            /\ \E r \in 2..Len(rows) : Len(rows[r]) < t.column_count

\* every cell of the rows is filled and no longer than max_cell_length, and
\* some row has min_table_cols cells
AllFilledShort(rows, cfg) ==
    /\ \A r \in 1..Len(rows) : \A c \in 1..Len(rows[r]) :
        CellFilled(rows[r][c]) /\ Len(strip(rows[r][c])) <= cfg.max_cell_length
    /\ \E r \in 1..Len(rows) : Len(rows[r]) >= cfg.min_table_cols

C7_SequentialIndex ==
    tpc = "returned" =>
        \A k \in 1..Len(tables_result) : tables_result[k].table_index = k

\* C8 as stated: for the page "Table of Contents" / "1. Introduction ... 5" /
\* "2. Methods ... 20" / "3. Results ... 45" and the default config, the
\* entries are ("1", Introduction, 5), ("2", Methods, 20), ("3", Results, 45).
C8_ScenarioEntries ==
    (ipc = "done" /\ config = DefaultConfig /\ pages = as_pages(<<ContentsPage>>)) =>
        /\ index_result # <<>>
        /\ index_result[1].entries =
            << [entry_number |-> <<"1">>, title |-> <<"I","n","t","r","o","d","u","c","t","i","o","n">>,
                page_reference |-> <<5>>],
               [entry_number |-> <<"2">>, title |-> <<"M","e","t","h","o","d","s">>,
                page_reference |-> <<20>>],
               [entry_number |-> <<"3">>, title |-> <<"R","e","s","u","l","t","s">>,
                page_reference |-> <<45>>] >>

\* C8 amended: for that page and the default config the result holds exactly
\* three entries, in order, with titles Introduction, Methods, Results and
\* page references 5, 20, 45; the entry number is the enumerator as written
\* in the line, with its full stop: "1.", "2.", "3.".
C8_ScenarioEntriesAsWritten ==
    (ipc = "done" /\ config = DefaultConfig /\ pages = as_pages(<<ContentsPage>>)) =>
        /\ index_result # <<>>
        /\ index_result[1].page_number = 1
        /\ index_result[1].entries =
            << [entry_number |-> <<"1",".">>, title |-> <<"I","n","t","r","o","d","u","c","t","i","o","n">>,
                page_reference |-> <<5>>],
               [entry_number |-> <<"2",".">>, title |-> <<"M","e","t","h","o","d","s">>,
                page_reference |-> <<20>>],
               [entry_number |-> <<"3",".">>, title |-> <<"R","e","s","u","l","t","s">>,
                page_reference |-> <<45>>] >>

\* extract has returned for that page under the default config
C8_Witness ==
    /\ ipc = "done" /\ config = DefaultConfig /\ pages = as_pages(<<ContentsPage>>)
    /\ strategy = "keywords" /\ li = 5
    /\ Len(filtered_entries) = 3

\* C6 as stated: after full-text extraction, every page whose extractable
\* text is empty or None has an entry with char_count = 0 in the page list.
C6_EmptyPageRecorded ==
    (last_call = "extract_all_text" /\ ret.kind = "result" /\ ProcState = "Ready") =>
        \A p \in 1..Len(doc) :
            (doc[p] = None \/ doc[p] = <<>>) =>
                \E e \in 1..Len(ret.text.pages) :
                    /\ ret.text.pages[e].page_number = p
                    /\ ret.text.pages[e].char_count = 0

\* C9 as stated: whenever control is with the caller outside the with block,
\* a handle the processor acquired has been closed.
C9_HandleReleased == ~in_with => handle # "open"

StateRank(s) ==
    IF s = "Unopened" THEN 0 ELSE IF s = "Configuring" THEN 1
    ELSE IF s = "Ready" THEN 2 ELSE 3

\* C10 as stated: the processor moves Unopened -> Configuring -> Ready ->
\* Closed and never back; the five methods return a result only in Ready,
\* are refused with RuntimeError in Unopened and in Closed, and a Closed
\* processor never becomes Ready again.
C10_Lifecycle ==
    [][ /\ (last_call' \in Methods /\ ret'.kind = "result") => ProcState = "Ready"
        /\ (last_call' \in Methods /\ ProcState \in {"Unopened", "Closed"})
              => ret'.kind = "RuntimeError"
        /\ StateRank(ProcState') >= StateRank(ProcState) ]_vars


\* C11: __enter__ with no explicit config, once the document is open and
\* counted, returns and leaves config, book_type and both extractors set,
\* the extractors holding the processor's config, whatever the sampled pages
\* give and also when classifying raises; when no sample is usable the
\* book type is unknown and the config is the default one, which is the
\* config of the unknown type.
C11_AutoConfigNeverFatal ==
    [][ (last_call' = "__enter__" /\ self_pdf' = "pdf" /\ self_total_pages' = Len(doc)
         /\ self_config = <<>> /\ ret'.kind # "raised" /\ ~in_with)
        => /\ ret'.kind = "returned" /\ in_with'
           /\ Len(self_config') = 1
           /\ self_book_type' \in {"academic", "novel", "textbook", "manual", "unknown"}
           /\ self_index_extractor' = self_config'
           /\ self_table_extractor' = self_config'
           /\ sample_pages(doc, Len(doc)) = <<>> =>
                 /\ self_book_type' = "unknown"
                 /\ self_config' = <<DefaultConfig>>
                 /\ self_config' = <<get_config_for_type("unknown")>> ]_vars

\* a document with pages, none of which gives a usable sample, was opened
\* without an explicit config
C11_Witness ==
    /\ last_call = "__enter__" /\ ret.kind = "returned" /\ in_with
    /\ Len(doc) = MaxDocPages
    /\ \A p \in 1..Len(doc) : doc[p] \in {None, <<>>, Raises}
    /\ \E p \in 1..Len(doc) : doc[p] = Raises
    /\ self_book_type = "unknown"
    /\ self_config = <<DefaultConfig>>

\* the entries of a list of page entries or tables that carry page number p
of_page(recorded, p) == SelectSeq(recorded, LAMBDA e : e.page_number = p)

\* the pages of the document whose text extraction, or table extraction, raises
FailingTextPages == {p \in 1..Len(doc) : doc[p] = Raises}
FailingTablePages == {p \in 1..Len(doc_tables) : doc_tables[p].raises}

\* C12: extract_all_text and extract_tables return whatever set F of pages
\* raises; extract_all_text holds exactly one entry, with empty text and
\* char_count 0, for each page of F; and for every page outside F the
\* entries and the tables are those of the same call on the document in
\* which each page of F gives a value instead of raising, whichever value.
C12_PageFailuresIsolated ==
    /\ (last_call = "extract_all_text" /\ ProcState = "Ready") =>
          /\ ret.kind = "result"
          /\ \A p \in FailingTextPages :
                of_page(ret.text.pages, p) =
                    <<[page_number |-> p, text |-> <<>>, char_count |-> 0]>>
          /\ \A r \in CallTextPool \ {Raises} :
                LET healthy == [p \in 1..Len(doc) |->
                                   IF p \in FailingTextPages THEN r ELSE doc[p]]
                    expected == extract_all_text(healthy, self_total_pages).pages
                IN  \A p \in (1..Len(doc)) \ FailingTextPages :
                       of_page(ret.text.pages, p) = of_page(expected, p)
    /\ (last_call = "extract_tables" /\ ProcState = "Ready") =>
          /\ ret.kind = "result"
          /\ \A r \in CallTablePool \ {TablesRaise} :
                LET healthy == [p \in 1..Len(doc_tables) |->
                                   IF p \in FailingTablePages THEN r ELSE doc_tables[p]]
                    expected == extract_tables(healthy, self_total_pages, arg_page_range,
                                               self_table_extractor[1])
                IN  \A p \in (1..Len(doc_tables)) \ FailingTablePages :
                       of_page(ret_tables, p) = of_page(expected, p)

\* extract_all_text returned on a document whose first page raises and
\* whose last page has text, and holds an entry for both
C12_Witness ==
    /\ last_call = "extract_all_text" /\ ret.kind = "result"
    /\ Len(doc) = MaxCallPages
    /\ doc[1] = Raises
    /\ doc[Len(doc)] \notin {Raises, None, <<>>}
    /\ of_page(ret.text.pages, 1) # <<>>
    /\ of_page(ret.text.pages, Len(doc)) # <<>>


\* C13: a constructor call or an extract_from_pdf call on a path with no
\* document behind it ends with FileNotFoundError, hands no path to
\* pdfplumber.open, constructs no processor, and leaves the output
\* directory as it was: no job directory, report or sidecar file is made.
C13_MissingInputFatal ==
    [][ (svc_call'.op \in {"PDFProcessor", "extract_from_pdf"}
         /\ ~fs_documents[svc_call'.pdf_path].exists)
        => /\ svc_ret'.kind = "FileNotFoundError"
           /\ opened_paths' = opened_paths
           /\ fs_output' = fs_output
           /\ UNCHANGED procVars ]_vars

\* extract_from_pdf was called on the missing path with the job id of an
\* earlier finished job, whose files are all there is under output_dir
C13_Witness ==
    /\ svc_call = [op |-> "extract_from_pdf", pdf_path |-> "missing.pdf",
                   job_id |-> <<"job1">>]
    /\ svc_ret.kind = "FileNotFoundError"
    /\ <<<<"job1">>, <<"extraction.json">>>> \in fs_output
    /\ \A f \in fs_output : f[1] = <<"job1">>
    /\ opened_paths = {"book.pdf"}

long_rows(rows, cfg) ==
    Cardinality({r \in 1..Len(rows) :
        \E c \in 1..Len(rows[r]) :
            /\ rows[r][c] # None /\ rows[r][c] # <<>>
            /\ Len(strip(rows[r][c])) > cfg.max_cell_length})

\* the checks of _validate_table other than the one on long cells
passes_other_checks(table, cfg) ==
    _validate_table(table, [cfg EXCEPT !.max_cell_length = 1000000])

\* C16 as stated: a grid that passes the other checks is rejected exactly
\* when more than half of its non-empty rows contain a cell longer than
\* max_cell_length, however many long cells those rows hold.
C16_LongRowsDecide ==
    ( /\ tpc = "returned" /\ ~tables_raise
      /\ Len(raw_tables) = 1
      /\ passes_other_checks(raw_tables[1], config) )
    => ( tables_result = <<>>
         <=> 2 * long_rows(non_empty_rows(raw_tables[1]), config)
                > Len(non_empty_rows(raw_tables[1])) )

\* the line the next pass of the loop handles
next_line == strip(lines[li + 1])

\* a pass over a line before the last one ended the loop
halted_early == ipc # "scan" /\ index_pages # <<>> /\ li < Len(lines)

next_line_matched_on ==
    /\ ipc = "scan" /\ li < Len(lines) /\ start_collecting
    /\ next_line # <<>>
    /\ ~is_content_line(next_line, entries, config)
    /\ (current_entry = <<>> =>
           \A k \in 1..Len(skip_words) : ~contains(lower(next_line), skip_words[k]))

\* the next pass handles a line that matches no pattern while an entry is open
unmatched_with_open_entry ==
    /\ next_line_matched_on
    /\ current_entry # <<>>
    /\ \A n \in 1..3 : ~match_pattern(n, next_line).ok

\* the next line fits the open entry as a continuation
fits_open_entry ==
    Len(next_line) < 150 /\ Len(current_entry[1].title) + Len(next_line) < 300

\* the open entry's title with the next line appended
title_with_line == current_entry[1].title \o <<" ">> \o next_line

\* C18 as stated: an unmatched line that is short, fits and is no duplicate
\* of the open title is appended to it; any other unmatched line closes the
\* open entry and is itself tried afresh, the unnumbered-heading test included.
C18_OtherwiseClosedAndRetried ==
    [][ unmatched_with_open_entry =>
          IF fits_open_entry /\ title_key(next_line) # title_key(current_entry[1].title)
          THEN current_entry' = <<[current_entry[1] EXCEPT !.title = title_with_line]>>
          ELSE /\ current_entry' = <<>>
               /\ (/\ is_unnumbered_entry(next_line)
                   /\ title_key(next_line)
                        \notin seen_titles \cup {title_key(current_entry[1].title)})
                  => /\ entries' # <<>>
                     /\ entries'[Len(entries')].title = next_line ]_vars

\* C18 amended: an unmatched line that is short, fits and is no duplicate of
\* the open title is appended to it; a short fitting line that duplicates
\* the open title changes nothing and leaves the entry open; a line of 150
\* characters or more, or one that would bring the title to 300, saves the
\* open entry (when its title is new) and closes it, and the line itself is
\* dropped without any further match attempt.
C18_DuplicateIgnoredLongCloses ==
    [][ unmatched_with_open_entry =>
          IF fits_open_entry
          THEN IF title_key(next_line) # title_key(current_entry[1].title)
               THEN /\ current_entry' = <<[current_entry[1] EXCEPT !.title = title_with_line]>>
                    /\ Len(entries') = Len(entries)
                    /\ seen_titles' = seen_titles
               ELSE <<current_entry', entries', seen_titles'>>
                       = <<current_entry, entries, seen_titles>>
          ELSE /\ current_entry' = <<>>
               /\ entries' = IF title_key(current_entry[1].title) \in seen_titles
                             THEN entries ELSE Append(entries, current_entry[1])
               /\ seen_titles' = seen_titles \cup {title_key(current_entry[1].title)} ]_vars

\* the line just handled matched no pattern and duplicates the title of the
\* entry that is still open
C18_Witness ==
    /\ ipc = "scan" /\ li > 1 /\ start_collecting
    /\ current_entry # <<>>
    /\ \A n \in 1..3 : ~match_pattern(n, strip(lines[li])).ok
    /\ title_key(strip(lines[li])) = title_key(current_entry[1].title)
    /\ entries = <<>>

\* the first pattern, in the configured order, that matches the next line
first_pattern == CHOOSE n \in 1..3 :
    /\ match_pattern(n, next_line).ok
    /\ \A k \in 1..(n - 1) : ~match_pattern(k, next_line).ok

\* the entry a match of pattern n stands for: enumerator or none, title
\* text, page after the dotted leader or none
entry_meant(n, groups) ==
    IF n = 3
    THEN [entry_number |-> None, title |-> clean_title(groups[1]),
          page_reference |-> IF groups[2] # None /\ groups[2] # <<>>
                             THEN <<to_int(groups[2])>> ELSE <<>>]
    ELSE [entry_number |-> groups[1], title |-> clean_title(groups[2]),
          page_reference |-> IF Len(groups) > 2 /\ groups[3] # None /\ groups[3] # <<>>
                             THEN <<to_int(groups[3])>> ELSE <<>>]

\* C19: on a line handled by entry matching, the first pattern that matches
\* decides the entry (enumerator or none, title text, page after the dotted
\* leader or none), for each of the three default patterns; when that entry
\* is not accepted no later pattern opens another entry from the line.
C19_FirstMatchDecides ==
    [][ (next_line_matched_on /\ \E n \in 1..3 : match_pattern(n, next_line).ok) =>
          \A e \in {entry_meant(first_pattern, match_pattern(first_pattern, next_line).groups)} :
            IF /\ 2 < Len(e.title) /\ Len(e.title) < 300
               /\ title_key(e.title) \notin (save_entry(loop_state, TRUE)).seen
            THEN current_entry' = <<e>>
            ELSE current_entry' \in {<<>>, current_entry} ]_vars

\* identify_first_page has returned a page number
first_page_returned == last_call = "identify_first_page" /\ ret.kind = "result"

\* page p has a text: not None, not empty, and extract_text did not raise
page_has_text(p) == doc[p] # None /\ doc[p] # <<>> /\ doc[p] # Raises

\* page p qualifies as the first content page
page_qualifies(p) ==
    /\ page_has_text(p)
    /\ \/ /\ Len(strip(lower(doc[p]))) >= self_config[1].min_content_length
          /\ \E n \in 1..Len(content_indicators) :
                Search(strip(lower(doc[p])), content_indicators[n])
       \/ /\ p > self_config[1].skip_initial_pages + 2
          /\ 2 * Len(strip(lower(doc[p]))) > 3 * self_config[1].min_content_length

\* page p has a text longer than min_content_length
page_is_long(p) ==
    page_has_text(p) /\ Len(strip(doc[p])) > self_config[1].min_content_length

\* the pages after the skip_initial_pages boundary
after_skip == (self_config[1].skip_initial_pages + 1)..Len(doc)

\* the smallest number in a non-empty set of page numbers
lowest(S) == CHOOSE p \in S : \A q \in S : p <= q

checked_count ==
    Min2(IF max_pages = <<>> \/ max_pages = <<0>> THEN config.max_index_pages
         ELSE max_pages[1], Len(pages))

\* the pages extract looks at
checked_pages == SubSeq(pages, 1, checked_count)

\* C21: the locator is a strict cascade over the first min(max_pages,
\* len(pages)) pages: the pattern strategy decides only when the keyword
\* strategy located nothing there, the statistical one only when both
\* located nothing, the pages used are those of the first strategy that
\* located any, no page beyond the first min(max_pages, len(pages)) is
\* located, and when no strategy locates a page the result is none.
C21_StrictCascade ==
    ipc # "locate" =>
        /\ \A i \in 1..Len(index_pages) :
              \E h \in 1..checked_count : index_pages[i] = pages[h]
        /\ strategy = "keywords" =>
              index_pages = find_index_pages_by_keywords(checked_pages) /\ index_pages # <<>>
        /\ strategy = "patterns" =>
              /\ find_index_pages_by_keywords(checked_pages) = <<>>
              /\ index_pages = find_index_pages_by_patterns(checked_pages)
              /\ index_pages # <<>>
        /\ strategy = "statistics" =>
              /\ find_index_pages_by_keywords(checked_pages) = <<>>
              /\ find_index_pages_by_patterns(checked_pages) = <<>>
              /\ index_pages = find_index_pages_by_statistics(checked_pages)
              /\ index_pages # <<>>
        /\ strategy = "none" =>
              /\ find_index_pages_by_keywords(checked_pages) = <<>>
              /\ find_index_pages_by_patterns(checked_pages) = <<>>
              /\ find_index_pages_by_statistics(checked_pages) = <<>>
              /\ index_pages = <<>> /\ index_result = <<>> /\ ipc = "done"

\* the statistical strategy located the first page of a two-page document
\* cut to one page, whose second page the pattern strategy would locate
C21_Witness ==
    /\ ipc = "done" /\ strategy = "statistics"
    /\ max_pages = <<1>> /\ Len(pages) = 2
    /\ find_index_pages_by_patterns(pages) # <<>>

\* the lowest page, among those extract looks at, that satisfies Hit
first_hit(Hit(_)) ==
    CHOOSE a \in 1..checked_count :
        Hit(pages[a].text) /\ \A h \in 1..(a - 1) : ~Hit(pages[h].text)

\* the length of the longest run of at most `most` pages right after page a,
\* all among those extract looks at, that each pass the continuation test
run_after(a, most) ==
    CHOOSE k \in 0..most :
        /\ \A j \in 1..k : /\ a + j <= checked_count
                           /\ looks_like_index_continuation(pages[a + j].text)
        /\ k < most => \/ a + k + 1 > checked_count
                       \/ ~looks_like_index_continuation(pages[a + k + 1].text)

page_has_keyword(text) == has_index_keyword(lower(text))
page_is_numbered(text) == numbered_lines(text) >= 3

\* C22: the keyword strategy locates the first page with an index keyword
\* and, after it, the longest run of at most 2 immediately following pages
\* that each pass the continuation test: nothing is absorbed past a failing
\* page; the pattern strategy locates its anchor and at most 1 following page.
C22_AnchorAndRun ==
    ipc # "locate" =>
        /\ strategy = "keywords" =>
              \A a \in {first_hit(page_has_keyword)} :
                  index_pages = SubSeq(pages, a, a + run_after(a, 2))
        /\ strategy = "patterns" =>
              \A a \in {first_hit(page_is_numbered)} :
                  index_pages = SubSeq(pages, a, a + run_after(a, 1))

\* the keyword strategy took the anchor and two pages, leaving a third page
\* that passes the continuation test
C22_Witness ==
    /\ ipc = "done" /\ strategy = "keywords"
    /\ Len(pages) = 4 /\ max_pages = <<>>
    /\ Len(index_pages) = 3 /\ index_pages[1] = pages[1]
    /\ looks_like_index_continuation(pages[4].text)

\* C23: in every IndexResult returned by extract_index of the processor the
\* contributing pages immediately follow the anchor in the document: the
\* page numbers are anchor, anchor + 1, ..., also when pages of the
\* document have no text or fail text extraction.
C23_PagesConsecutive ==
    (last_call = "extract_index" /\ ret_index # <<>>) =>
        /\ ret_index[1].pages[1] = ret_index[1].page_number
        /\ \A i \in 1..Len(ret_index[1].pages) :
              ret_index[1].pages[i] = ret_index[1].page_number + i - 1

\* line i of the lines parsed is non-blank and matches an index keyword
is_header_line(i) ==
    strip(lines[i]) # <<>> /\ has_index_keyword(strip(lines[i]))

\* the positions of the lines that match an index keyword
header_lines == {i \in 1..Len(lines) : is_header_line(i)}

\* C24: no entry is created from a line up to and including the first line
\* that matches an index keyword: until that line has been passed there is
\* no entry and no open entry, that line only starts the collecting, the
\* entries returned are those of the lines after it, and without such a
\* line the entry list is empty.
C24_NothingBeforeHeader ==
    /\ []( (ipc \in {"scan", "finish"} /\ ~start_collecting) =>
              entries = <<>> /\ current_entry = <<>> /\ seen_titles = {} )
    /\ [][ (ipc = "scan" /\ ~start_collecting /\ li < Len(lines)) =>
              /\ entries' = <<>> /\ current_entry' = <<>>
              /\ start_collecting' = is_header_line(li + 1) ]_vars
    /\ []( (ipc = "done" /\ index_pages # <<>>) =>
              IF header_lines = {} THEN filtered_entries = <<>>
              ELSE \A h \in {lowest(header_lines)} :
                   \A st \in {scan_lines([loop_start EXCEPT !.start = TRUE],
                                         SubSeq(lines, h + 1, Len(lines)), 1, config)} :
                      filtered_entries = filter_entries(save_last(st), {}) )

\* the parsing ended with an entry from the line after the heading, the
\* numbered line before the heading having given none
C24_Witness ==
    /\ ipc = "done" /\ Len(lines) = 3
    /\ match_pattern(1, strip(lines[1])).ok
    /\ header_lines = {2}
    /\ Len(filtered_entries) = 1
    /\ filtered_entries[1].title = <<"I","n","t","r","o">>

\* C25: during auto-configuration, for every page count from 0 on, every
\* index at which a page is read for sampling lies in 0 .. total_pages - 1,
\* at most 5 samples are passed to the analyzer, and each sample is the
\* text of a page read, cut to at most 1000 characters.
C25_SamplesInRange ==
    /\ \A idx \in sampled.reads : 0 <= idx /\ idx <= Len(doc) - 1
    /\ Len(sampled.passed) <= 5
    /\ \A k \in 1..Len(sampled.passed) :
          /\ Len(sampled.passed[k]) <= 1000
          /\ \E idx \in sampled.reads :
                /\ doc[idx + 1] \notin {None, Raises}
                /\ Len(sampled.passed[k]) <= Len(doc[idx + 1])
                /\ sampled.passed[k] = SubSeq(doc[idx + 1], 1, Len(sampled.passed[k]))
                /\ Len(doc[idx + 1]) > 1000 => Len(sampled.passed[k]) = 1000

\* a document of 12 pages was sampled at five different indices, one of them
\* a page of more than 1000 characters that was cut to 1000
C25_Witness ==
    /\ last_call = "__enter__" /\ Len(doc) = 12
    /\ sampled.reads = {0, 5, 6, 7, 10}
    /\ \E k \in 1..Len(sampled.passed) : Len(sampled.passed[k]) = 1000
    /\ Len(doc[7]) = 1001

\* C26: with the default index keywords and min_index_entries >= 1, extract
\* returns an IndexResult only for pages located by the keyword strategy:
\* pages located by the pattern or the statistical strategy end in none,
\* and the anchor page of every result contains an index keyword.
C26_OnlyKeywordPagesReturned ==
    (ipc = "done" /\ config.min_index_entries >= 1) =>
        /\ strategy \in {"patterns", "statistics"} => index_result = <<>>
        /\ index_result # <<>> =>
              /\ strategy = "keywords"
              /\ index_result[1].has_index_keyword
              /\ \E p \in 1..Len(pages) :
                    /\ pages[p].page_number = index_result[1].page_number
                    /\ has_index_keyword(lower(pages[p].text))

\* the pattern strategy located a page of three numbered lines and the call
\* returned none
C26_Witness ==
    /\ ipc = "done" /\ strategy = "patterns"
    /\ numbered_lines(index_pages[1].text) >= 3
    /\ Len(lines) >= config.min_index_entries
    /\ index_result = <<>>

\* C27: an entry committed to the entry list is never changed by a later
\* line: every pass of the loop leaves the entries committed so far as they
\* were, and the list grows only at its end.
C27_CommittedEntriesFrozen ==
    [][ ipc = "scan" =>
          /\ Len(entries') >= Len(entries)
          /\ \A i \in 1..Len(entries) : entries'[i] = entries[i] ]_vars

\* C28: for every call extract_tables(page_range = (s, e)) every emitted
\* table carries a page number p with max(1, s) <= p <= min(e, total_pages)
\* and is one of the tables of document page p, and the tables appear in
\* ascending page order.
C28_TablesWithinRange ==
    (last_call = "extract_tables" /\ ret.kind = "result" /\ arg_page_range # <<>>) =>
        /\ \A k \in 1..Len(ret_tables) :
              /\ Max2(1, arg_page_range[1]) <= ret_tables[k].page_number
              /\ ret_tables[k].page_number <= Min2(arg_page_range[2], self_total_pages)
              /\ \E t \in 1..Len(extract_page_tables(doc_tables[ret_tables[k].page_number],
                                                     ret_tables[k].page_number,
                                                     self_table_extractor[1])) :
                    extract_page_tables(doc_tables[ret_tables[k].page_number],
                                        ret_tables[k].page_number,
                                        self_table_extractor[1])[t] = ret_tables[k]
        /\ \A k \in 1..(Len(ret_tables) - 1) :
              ret_tables[k].page_number <= ret_tables[k + 1].page_number

\* C29: identify_first_page always returns the number of an existing page
\* past the skip boundary: skip_initial_pages < r <= total_pages.
C29_FirstPageExists ==
    first_page_returned =>
        /\ self_config[1].skip_initial_pages < ret_page
        /\ ret_page <= self_total_pages

\* C30: every StructuredTable emitted by the table extractor has
\* column_count >= config.min_table_cols: no grid is accepted with a header
\* row narrower than the configured minimum number of columns.
C30_ColumnCountAtLeastMinimum ==
    \A k \in 1..Len(valid_tables) :
        valid_tables[k].column_count >= config.min_table_cols
====
